---- MODULE Spec2Model ----
(***************************************************************************)
(* AgentHub: the agentic-RAG control loop (app/agents/agentic_rag), the    *)
(* human-in-the-loop agent (app/agents/hitl_agent.py) and the SSE encoder  *)
(* (app/utils/message_utils.py).                                           *)
(*                                                                         *)
(* Thirteen specifications share the variables:                            *)
(*   SpecStream  streaming_message_generator over the event stream of any  *)
(*               sequentially executing compiled graph;                    *)
(*   SpecRag     one served turn of the agentic-RAG graph;                 *)
(*   SpecHitl    turns submitted to one thread of the HITL agent;          *)
(*   SpecServe   requests served at once over the shared checkpointer;     *)
(*   SpecWire    one message from the encoder to AgentClient and back;     *)
(*   SpecInvoke  one request to the invoke endpoint over the agents table; *)
(*   SpecSql     one call of the execute_sql_query tool;                   *)
(*   SpecCoord   the coordinator node on any message list;                 *)
(*   SpecReview  the review dialog of the Streamlit client and the resume; *)
(*   SpecBoot    the startup lifespan and the agents served afterwards;    *)
(*   SpecSession uses of the database managers' session();                *)
(*   SpecCsv     the CSV text execute_sql_query builds from the rows;      *)
(*   SpecClient  AgentClient reading the event stream of one request.      *)
(*                                                                         *)
(* A Python str is a sequence of characters: "" is << >>.                  *)
(***************************************************************************)
EXTENDS Integers, Sequences, FiniteSets, TLC

VARIABLES
    sse,        \* the events streaming_message_generator has yielded, in order
    stream,     \* "idle" | "open" | "closed": the generator of the current request
    nev,        \* number of stream events agent.astream has produced in this request
    produced,   \* the stream events agent.astream produced, in order (history)
    visit,      \* serial number of the node visit in progress
    messages,   \* the thread's checkpointed message list
    rag,        \* the agentic-RAG graph: cursor, GraphState fields, step count
    hitl,       \* the HITL agent's thread: cursor, pending interrupt, turn record
    srv,        \* the server: the checkpointer's threads and the requests in flight
    client,     \* AgentClient: the line it has received and what it parsed from it
    inv,        \* one request to the /chat/invoke endpoint and its response
    sql,        \* one call of the execute_sql_query tool and the database behind it
    coord,      \* one call of the coordinator node: its input state and its outcome
    ui,         \* the Streamlit session: st.session_state and what the backend got
    app,        \* the process's agent registry, the agents table and served graphs
    reader,     \* AgentClient reading one event stream: lines read, items yielded
    sess,       \* one use of the database manager's session() context manager
    csv         \* the CSV result execute_sql_query builds from the rows of a query

vars == <<sse, stream, nev, produced, visit, messages, rag, hitl, srv, client, inv, sql,
          coord, ui, app, reader, sess, csv>>

-----------------------------------------------------------------------------
(* Bounds of the model *)

\* stream events one request of SpecStream may carry
MaxEvents == 3
\* messages one node update of SpecStream may carry
MaxMsgs == 2
\* supersteps a run of a compiled graph may take before the graph library
\* raises GraphRecursionError. The repository sets no recursion_limit
\* (handle_input builds the config from thread_id alone), so the library's
\* default applies; the model takes a small value in its place.
RecursionLimit == 7
\* turns submitted to the thread of SpecHitl
MaxTurns == 3
\* calls of the model on the thread of SpecHitl
MaxModelCalls == 3
\* requests the server of SpecServe receives
MaxRequests == 2
\* characters of a str content in SpecWire
MaxWireLen == 2

-----------------------------------------------------------------------------
(* Messages: langchain_core.messages and app.schema.chat_message *)

NoId == "none"

\* str contents
Empty == << >>
Hello == <<"h", "i">>

StrContent(s) == [form |-> "str", str |-> s, items |-> << >>]
ListContent(items) == [form |-> "list", str |-> << >>, items |-> items]

\* items of a list content: a bare str, a text block, or another block
StrItem(s) == [type |-> "str", text |-> s]
TextItem(s) == [type |-> "text", text |-> s]
ImageItem == [type |-> "image_url", text |-> << >>]

\* Python truthiness of a message content (`if content:`)
Truthy(content) ==
    IF content.form = "str" THEN content.str # << >> ELSE content.items # << >>

RECURSIVE JoinText(_)
JoinText(items) ==
    IF items = << >> THEN << >>
    ELSE LET it == Head(items)
         IN (IF it.type \in {"str", "text"} THEN it.text ELSE << >>)
              \o JoinText(Tail(items))

convert_message_content_to_string(content) ==
    IF content.form = "str" THEN content.str ELSE JoinText(content.items)

\* A LangChain message. kind "system" stands for every BaseMessage that is
\* none of HumanMessage, AIMessage, ToolMessage.
Msg(kind, content, tool_calls, tool_call_id) ==
    [kind |-> kind, content |-> content, tool_calls |-> tool_calls,
     tool_call_id |-> tool_call_id]

HumanMessage(content) == Msg("human", content, << >>, NoId)
AIMessage(content, tool_calls) == Msg("ai", content, tool_calls, NoId)
ToolMessage(content, id) == Msg("tool", content, << >>, id)
SystemMessage(content) == Msg("system", content, << >>, NoId)

ChatMessage(type, content, tool_calls, tool_call_id) ==
    [type |-> type, content |-> content, tool_calls |-> tool_calls,
     tool_call_id |-> tool_call_id]

\* the ValueError of the `case _` arm
Unsupported == ChatMessage("ValueError", << >>, << >>, NoId)

langchain_to_chat_message(m) ==
    CASE m.kind = "human" ->
           ChatMessage("human", convert_message_content_to_string(m.content),
                       << >>, NoId)
      [] m.kind = "ai" ->
           ChatMessage("ai", convert_message_content_to_string(m.content),
                       m.tool_calls, NoId)
      [] m.kind = "tool" ->
           ChatMessage("tool", convert_message_content_to_string(m.content),
                       << >>, m.tool_call_id)
      [] OTHER -> Unsupported

-----------------------------------------------------------------------------
(* Events of the SSE stream *)

NoMsg == ChatMessage("none", << >>, << >>, NoId)

\* tag: where the event comes from (history, not on the wire):
\*   ev    serial of the agent.astream event it was encoded from
\*   idx   position of the message in that event's new_messages (0: a token)
\*   visit serial of the node visit that produced the agent.astream event
\*   node  the node of that visit
\*   call  the LLM call a chunk belongs to ("none" for an update)
Tag(ev, idx, v, node, call) ==
    [ev |-> ev, idx |-> idx, visit |-> v, node |-> node, call |-> call]

TokenEvent(text, tag) == [type |-> "token", text |-> text, msg |-> NoMsg, tag |-> tag]
MessageEvent(cm, tag) == [type |-> "message", text |-> << >>, msg |-> cm, tag |-> tag]
ErrorEvent(text, tag) == [type |-> "error", text |-> text, msg |-> NoMsg, tag |-> tag]
Done == [type |-> "done", text |-> << >>, msg |-> NoMsg, tag |-> Tag(0, 0, 0, "none", "none")]

UnexpectedError == <<"Unexpected error">>
InternalServerError == <<"Internal server error">>

-----------------------------------------------------------------------------
(* Events of agent.astream(stream_mode=["updates", "messages", "custom"]) *)

\* the value a node's update carries under its name:
\*   "dict"      a partial state; messages is updates.get("messages", [])
\*   "none"      None (a node that returns nothing)
\*   "interrupt" the tuple of Interrupt objects under "__interrupt__"
DictUpdate(msgs) == [form |-> "dict", messages |-> msgs, value |-> << >>]
NoneUpdate == [form |-> "none", messages |-> << >>, value |-> << >>]
InterruptUpdate(requests) == [form |-> "interrupt", messages |-> << >>, value |-> requests]

NoChunk == [cls |-> "none", content |-> StrContent(Empty)]
AIMessageChunk(content) == [cls |-> "AIMessageChunk", content |-> content]
\* what a non-LLM node sends in "messages" mode
ToolMessageItem == [cls |-> "ToolMessage", content |-> StrContent(Hello)]

\* ("updates", {node: upd}): one event per finished task
UpdatesEvent(node, upd, v) ==
    [mode |-> "updates", key |-> (IF upd.form = "interrupt" THEN "__interrupt__" ELSE node),
     upd |-> upd, chunk |-> NoChunk, visit |-> v, node |-> node, call |-> "none"]
\* ("messages", (chunk, metadata))
MessagesEvent(chunk, node, call, v) ==
    [mode |-> "messages", key |-> node, upd |-> NoneUpdate, chunk |-> chunk,
     visit |-> v, node |-> node, call |-> call]
\* ("custom", data)
CustomEvent(node, v) ==
    [mode |-> "custom", key |-> node, upd |-> NoneUpdate, chunk |-> NoChunk,
     visit |-> v, node |-> node, call |-> "none"]

-----------------------------------------------------------------------------
(* streaming_message_generator *)

\* lines 84-89: `updates = updates or {}` then `updates.get("messages", [])`.
\* A non-empty tuple is truthy and has no .get: AttributeError.
UpdateRaises(e) == e.mode = "updates" /\ e.upd.form = "interrupt"

new_messages(e) ==
    IF e.mode = "updates" /\ e.upd.form = "dict" THEN e.upd.messages ELSE << >>

\* lines 91-98, one message: an error event when the conversion raises,
\* otherwise a message event; the loop goes on in both cases
EncodeOne(m, tag) ==
    LET cm == langchain_to_chat_message(m)
    IN IF cm = Unsupported THEN ErrorEvent(UnexpectedError, tag)
       ELSE MessageEvent(cm, tag)

RECURSIVE EncodeFrom(_, _, _, _)
EncodeFrom(msgs, i, e, n) ==
    IF i > Len(msgs) THEN << >>
    ELSE <<EncodeOne(msgs[i], Tag(n, i, e.visit, e.node, e.call))>>
            \o EncodeFrom(msgs, i + 1, e, n)

RECURSIVE Reverse(_)
Reverse(s) == IF s = << >> THEN << >> ELSE Append(Reverse(Tail(s)), Head(s))

\* the loop run over the messages last to first
EncodeMessages_Reversed(msgs, e, n) == Reverse(EncodeFrom(msgs, 1, e, n))

RECURSIVE EncodeUntilError(_, _, _, _)
EncodeUntilError(msgs, i, e, n) ==
    IF i > Len(msgs) THEN << >>
    ELSE LET ev == EncodeOne(msgs[i], Tag(n, i, e.visit, e.node, e.call))
         IN IF ev.type = "error" THEN <<ev>>
            ELSE <<ev>> \o EncodeUntilError(msgs, i + 1, e, n)

\* `break` where the loop has `continue`
EncodeMessages_Break(msgs, e, n) == EncodeUntilError(msgs, 1, e, n)

\* lines 91-98: the loop over new_messages of stream event e, the n-th event
EncodeMessages(msgs, e, n) == EncodeFrom(msgs, 1, e, n)

\* lines 100-110
EncodeChunk(e, n) ==
    IF e.mode # "messages" THEN << >>
    ELSE IF e.chunk.cls # "AIMessageChunk" THEN << >>
    ELSE IF Truthy(e.chunk.content)
         THEN <<TokenEvent(convert_message_content_to_string(e.chunk.content),
                           Tag(n, 0, e.visit, e.node, e.call))>>
         ELSE << >>

\* lines 81-110: the body of the `async for`, for the n-th stream event
EncodeEvent(e, n) ==
    IF UpdateRaises(e) THEN << >>
    ELSE EncodeMessages(new_messages(e), e, n) \o EncodeChunk(e, n)

\* lines 111-113
ExceptHandler(s) ==
    Append(s, ErrorEvent(InternalServerError, Tag(0, 0, 0, "none", "none")))

\* lines 114-115
Finally(s) == Append(s, Done)

OnRaise_NoFinally(s) == ExceptHandler(s)

\* an exception leaves the `async for`: except, then finally
OnRaise(s) == Finally(ExceptHandler(s))

\* the agent's stream is exhausted: finally
OnEnd(s) == Finally(s)

\* the generator's state: what it has yielded, how many stream events it has
\* received (and which), and whether it still runs
Generator == [sse |-> sse, nev |-> nev, produced |-> produced, stream |-> stream]

\* one iteration of the `async for` on stream event e
Push(g, e) ==
    IF g.stream # "open" THEN g
    ELSE LET n == g.nev + 1
         IN IF UpdateRaises(e)
            THEN [sse |-> OnRaise(g.sse \o EncodeEvent(e, n)), nev |-> n,
                  produced |-> Append(g.produced, e), stream |-> "closed"]
            ELSE [sse |-> g.sse \o EncodeEvent(e, n), nev |-> n,
                  produced |-> Append(g.produced, e), stream |-> "open"]

RECURSIVE PushAll(_, _)
PushAll(g, es) == IF es = << >> THEN g ELSE PushAll(Push(g, Head(es)), Tail(es))

\* the generator receives the stream events es from agent.astream, in order
YieldAll(es) ==
    /\ stream = "open"
    /\ LET g == PushAll(Generator, es)
       IN /\ sse' = g.sse
          /\ nev' = g.nev
          /\ produced' = g.produced
          /\ stream' = g.stream

Yield(e) == YieldAll(<<e>>)

\* agent.astream raises
Raise ==
    /\ stream = "open"
    /\ sse' = OnRaise(sse)
    /\ stream' = "closed"
    /\ UNCHANGED <<nev, produced>>

\* agent.astream produces the stream events es, then raises
YieldThenRaise(es) ==
    /\ stream = "open"
    /\ LET g == PushAll(Generator, es)
       IN /\ sse' = (IF g.stream = "open" THEN OnRaise(g.sse) ELSE g.sse)
          /\ nev' = g.nev
          /\ produced' = g.produced
          /\ stream' = "closed"

\* agent.astream ends
EndOfStream ==
    /\ stream = "open"
    /\ sse' = OnEnd(sse)
    /\ stream' = "closed"
    /\ UNCHANGED <<nev, produced>>

-----------------------------------------------------------------------------
(* SpecStream: the encoder over a graph that runs one node at a time.      *)
(* A visit of an LLM node sends chunks in "messages" mode while it runs,   *)
(* then its update; a non-LLM node sends its messages whole.               *)

\* the nodes of a tool-calling agent loop take turns: model, tools, model, ...
NodeOfVisit(n) == IF n % 2 = 1 THEN "model" ELSE "tools"

\* messages a node update may carry
UpdateMsgs == {AIMessage(StrContent(Hello), << >>), SystemMessage(StrContent(Hello))}

RECURSIVE SeqsUpTo(_, _)
SeqsUpTo(S, n) ==
    IF n = 0 THEN {<< >>}
    ELSE LET shorter == SeqsUpTo(S, n - 1)
         IN shorter \cup {Append(s, x) : s \in shorter, x \in S}

NoRag == [node |-> "none"]
NoHitl == [cursor |-> "none"]
NoSrv == [crashed |-> FALSE]
NoClient == [phase |-> "none"]
NoInv == [phase |-> "none"]
NoSql == [phase |-> "none"]
NoCoord == [phase |-> "none"]
NoUi == [phase |-> "none"]
NoApp == [phase |-> "none"]
NoReader == [phase |-> "none"]
NoSess == [phase |-> "none"]
NoCsv == [phase |-> "none"]

InitStream ==
    /\ sse = << >>
    /\ stream = "open"
    /\ nev = 0
    /\ produced = << >>
    /\ visit = [n |-> 1, node |-> NodeOfVisit(1)]
    /\ messages = << >>
    /\ rag = NoRag
    /\ hitl = NoHitl
    /\ srv = NoSrv
    /\ client = NoClient
    /\ inv = NoInv
    /\ sql = NoSql
    /\ coord = NoCoord
    /\ ui = NoUi
    /\ app = NoApp
    /\ reader = NoReader
    /\ sess = NoSess
    /\ csv = NoCsv

\* a chunk of the LLM call of the node in progress, or a whole message of a
\* non-LLM node
GenChunk ==
    /\ nev < MaxEvents
    /\ \E c \in (IF visit.node = "model"
                 THEN {AIMessageChunk(StrContent(Empty)), AIMessageChunk(StrContent(Hello))}
                 ELSE {ToolMessageItem}) :
          Yield(MessagesEvent(c, visit.node, "generation", visit.n))
    /\ UNCHANGED <<visit, messages, rag, hitl>>
    /\ UNCHANGED <<srv, client, inv, sql, coord, ui, app, reader, sess, csv>>

\* the node in progress finishes: its update, then the next node starts
GenUpdate ==
    /\ nev < MaxEvents
    /\ \E u \in {NoneUpdate} \cup {DictUpdate(ms) : ms \in SeqsUpTo(UpdateMsgs, MaxMsgs)} :
          Yield(UpdatesEvent(visit.node, u, visit.n))
    /\ visit' = [n |-> visit.n + 1, node |-> NodeOfVisit(visit.n + 1)]
    /\ UNCHANGED <<messages, rag, hitl>>
    /\ UNCHANGED <<srv, client, inv, sql, coord, ui, app, reader, sess, csv>>

\* get_stream_writer output of the node in progress
GenCustom ==
    /\ nev < MaxEvents
    /\ Yield(CustomEvent(visit.node, visit.n))
    /\ UNCHANGED <<visit, messages, rag, hitl>>
    /\ UNCHANGED <<srv, client, inv, sql, coord, ui, app, reader, sess, csv>>

\* the node in progress calls interrupt(): the run suspends
GenInterrupt ==
    /\ nev < MaxEvents
    /\ Yield(UpdatesEvent(visit.node, InterruptUpdate(<<"request">>), visit.n))
    /\ UNCHANGED <<visit, messages, rag, hitl>>
    /\ UNCHANGED <<srv, client, inv, sql, coord, ui, app, reader, sess, csv>>

GenRaise ==
    /\ Raise
    /\ UNCHANGED <<visit, messages, rag, hitl>>
    /\ UNCHANGED <<srv, client, inv, sql, coord, ui, app, reader, sess, csv>>

GenEnd ==
    /\ EndOfStream
    /\ UNCHANGED <<visit, messages, rag, hitl>>
    /\ UNCHANGED <<srv, client, inv, sql, coord, ui, app, reader, sess, csv>>

NextStream ==
    \/ GenChunk
    \/ GenUpdate
    \/ GenCustom
    \/ GenInterrupt
    \/ GenRaise
    \/ GenEnd

SpecStream == InitStream /\ [][NextStream]_vars

-----------------------------------------------------------------------------
(* Properties of the encoder, under SpecStream *)

Positions == 1..Len(sse)

\* the events encoded from stream events (not the sentinel, not the handler's error)
Encoded(i) == sse[i].tag.ev > 0

IsMessageSlot(i) == Encoded(i) /\ sse[i].type \in {"message", "error"}

\* C7: every stream ends with exactly one `data: [DONE]` sentinel, its last
\* event, whether the run completes, suspends on an interrupt or raises: the
\* sentinel is only ever the last event of a closed stream, and a closed
\* stream ends with it.
C7_SentinelOnceAndLast ==
    /\ \A i \in Positions :
          sse[i].type = "done" => (i = Len(sse) /\ stream = "closed")
    /\ stream = "closed" => (Len(sse) >= 1 /\ sse[Len(sse)].type = "done")

\* a stream closed by an interrupt after a message event
C7_Witness ==
    /\ stream = "closed"
    /\ \E n \in 1..Len(produced) : produced[n].upd.form = "interrupt"
    /\ \E i \in Positions : sse[i].type = "message"
    /\ sse[Len(sse)].type = "done"

\* C8: the encoder preserves production order. Events appear in the order of
\* the stream events they were encoded from, the messages of one update in
\* the order of the update's list and each carrying the message of its
\* position; the tokens of a node visit come before the message events of
\* that visit and after those of earlier visits, so no token lies between
\* the message events of one update.
C8_ProductionOrder ==
    /\ \A i, j \in Positions :
          (i < j /\ Encoded(i) /\ Encoded(j)) =>
             \/ sse[i].tag.ev < sse[j].tag.ev
             \/ (sse[i].tag.ev = sse[j].tag.ev /\ sse[i].tag.idx < sse[j].tag.idx)
    /\ \A i \in Positions :
          (Encoded(i) /\ sse[i].type = "message") =>
             sse[i].msg =
               langchain_to_chat_message(produced[sse[i].tag.ev].upd.messages[sse[i].tag.idx])
    /\ \A i, j \in Positions :
          (i < j /\ Encoded(i) /\ Encoded(j)) =>
             /\ sse[i].tag.visit <= sse[j].tag.visit
             /\ (IsMessageSlot(i) /\ sse[j].type = "token") =>
                   sse[i].tag.visit < sse[j].tag.visit
    /\ \A i, j, k \in Positions :
          (i < j /\ j < k /\ IsMessageSlot(i) /\ IsMessageSlot(k)
             /\ sse[i].tag.ev = sse[k].tag.ev) => sse[j].type # "token"

\* two tokens of one generation, then the two messages of the node's update
C8_Witness ==
    /\ Len(sse) >= 4
    /\ sse[1].type = "token" /\ sse[2].type = "token"
    /\ sse[3].type = "message" /\ sse[4].type \in {"message", "error"}
    /\ sse[3].tag.ev = sse[4].tag.ev

\* number of events encoded from the n-th stream event
EventsOf(n) == Cardinality({i \in Positions : sse[i].tag.ev = n})

-----------------------------------------------------------------------------
(* The agentic-RAG graph: app/agents/agentic_rag *)

COORDINATOR == "coordinator"
RETRIEVE == "retrieve"
GRADE_DOCUMENTS == "grade_documents"
WEBSEARCH == "web_search"
RAG_ANSWER == "rag_answer"
DIRECT_ANSWER == "direct_answer"
REPORTER == "reporter"
END == "__end__"

RagNodes == {COORDINATOR, RETRIEVE, GRADE_DOCUMENTS, WEBSEARCH, RAG_ANSWER,
             DIRECT_ANSWER, REPORTER}

\* RouteQuery.datasource
RouteLabels == {"vector_store", "web_search", "direct_answer"}

\* what the router's oracle may answer: a label of RouteQuery, a well-formed
\* answer whose label is none of them ("invalid"), or text that is no
\* structured answer at all ("unparseable")
RouterResponses == RouteLabels \cup {"invalid", "unparseable"}

\* chains/router.py: the structured-output parser validates the answer
\* against RouteQuery; whatever does not validate raises in route_question
\* (a ValidationError or OutputParserException, or the AttributeError of
\* `source.datasource` on the None the tool parser returns for plain text)
question_router(response) ==
    IF response \in RouteLabels
    THEN [raised |-> FALSE, datasource |-> response]
    ELSE [raised |-> TRUE, datasource |-> "none"]

\* what similarity_search(query, k=2) may return
Retrievals == {<< >>, <<"d1">>, <<"d1", "d2">>}
\* the document store behind the retriever: reachable with some answer to
\* the query, or unreachable
Stores == {[up |-> TRUE, docs |-> d] : d \in Retrievals} \cup {[up |-> FALSE, docs |-> << >>]}

\* a failed read is answered with no documents
retrieve_from_vectorstore_EmptyOnFailure(store) ==
    [raised |-> FALSE, documents |-> store.docs]

\* vectorstore_retriever.py: nothing between similarity_search and the node
\* catches an exception
retrieve_from_vectorstore(store) ==
    IF store.up
    THEN [raised |-> FALSE, documents |-> store.docs]
    ELSE [raised |-> TRUE, documents |-> << >>]

\* GradeDocuments.binary_score is a str: every string validates, "maybe"
\* stands for the ones that are neither yes nor no
DocGrades == {"yes", "Yes", "no", "maybe"}

\* str.lower compares the grade as written
lower_CaseSensitive(g) == g

lower(g) == IF g = "Yes" THEN "yes" ELSE g

\* the text of the g-th generation of a turn: "a" * g
GenText(g) == [i \in 1..g |-> "a"]
Generation(g) == AIMessage(StrContent(GenText(g)), << >>)
NoGeneration == AIMessage(StrContent(Empty), << >>)

\* The chunks an LLM call sends in "messages" mode. A free-text call sends
\* the role-only first delta, then the text. A with_structured_output call
\* sends its JSON as text under the json_schema method and as tool-call
\* chunks with empty content under function_calling: which one the build
\* uses is fixed for a run.
StructuredJson == <<"{json}">>
GenerationChunks(g) == <<AIMessageChunk(StrContent(Empty)), AIMessageChunk(StrContent(GenText(g)))>>
StructuredChunks(method) ==
    <<AIMessageChunk(StrContent(IF method = "json_schema" THEN StructuredJson ELSE Empty))>>
\* the chunks of the router's call: an answer that is no structured answer
\* arrives as plain text content under either method
RouterChunks(method, response) ==
    IF response = "unparseable"
    THEN <<AIMessageChunk(StrContent(<<"text">>))>>
    ELSE StructuredChunks(method)

RECURSIVE ChunkEvents(_, _, _, _)
ChunkEvents(chunks, node, call, v) ==
    IF chunks = << >> THEN << >>
    ELSE <<MessagesEvent(Head(chunks), node, call, v)>>
            \o ChunkEvents(Tail(chunks), node, call, v)

\* the question is the content of the latest Human message of the thread,
\* wherever it stands
coordinator_LatestHuman(msgs) ==
    LET humans == {i \in 1..Len(msgs) : msgs[i].kind = "human"}
    IN IF msgs = << >> THEN [raised |-> TRUE, question |-> StrContent(Empty)]
       ELSE IF humans = {} THEN [raised |-> FALSE, question |-> StrContent(Empty)]
       ELSE [raised |-> FALSE,
             question |-> msgs[CHOOSE i \in humans : \A j \in humans : j <= i].content]

\* coordinator.py: messages[-1] of an empty list raises IndexError before
\* `if messages` is looked at; the question is the content as it is; the
\* dict returned has the one key "question"
coordinator(msgs) ==
    IF msgs = << >> THEN [raised |-> TRUE, question |-> StrContent(Empty)]
    ELSE LET last_message == msgs[Len(msgs)]
         IN IF last_message.kind = "human"
            THEN [raised |-> FALSE, question |-> last_message.content]
            ELSE [raised |-> FALSE, question |-> StrContent(Empty)]

\* every question is sent to the vector store
route_question_AlwaysRetrieve(datasource) == RETRIEVE

\* graph.py route_question
route_question(datasource) ==
    CASE datasource = "vector_store" -> RETRIEVE
      [] datasource = "web_search" -> WEBSEARCH
      [] datasource = "direct_answer" -> DIRECT_ANSWER

\* graph.py decide_to_generate
decide_to_generate(web_search) == IF web_search THEN WEBSEARCH ELSE RAG_ANSWER

\* grade_documents.py: the loop over the documents, grades[i] the oracle's
\* score of documents[i]
RECURSIVE FilterDocs(_, _, _)
FilterDocs(docs, grades, i) ==
    IF i > Len(docs) THEN << >>
    ELSE (IF lower(grades[i]) = "yes" THEN <<docs[i]>> ELSE << >>)
            \o FilterDocs(docs, grades, i + 1)

\* the flag is raised only when no document is kept
grade_documents_WhenNoneKept(docs, grades) ==
    [documents |-> FilterDocs(docs, grades, 1),
     web_search |-> FilterDocs(docs, grades, 1) = << >>]

grade_documents(docs, grades) ==
    [documents |-> FilterDocs(docs, grades, 1),
     web_search |-> \E i \in 1..Len(docs) : lower(grades[i]) # "yes"]

\* a grounded answer is reported without the usefulness check
grade_generation_SkipAnswerCheck(grounded, useful) ==
    IF grounded THEN "useful" ELSE "not supported"

\* graph.py grade_generation_grounded_in_documents_and_question; useful is
\* read only when grounded
grade_generation(grounded, useful) ==
    IF grounded
    THEN (IF useful THEN "useful" ELSE "not useful")
    ELSE "not supported"

\* an answer that misses the question goes back to the vector store
RagAnswerEdge_NotUsefulRetrieves(label) ==
    CASE label = "not supported" -> RAG_ANSWER
      [] label = "useful" -> REPORTER
      [] label = "not useful" -> RETRIEVE

\* graph.py lines 92-96: the edges out of rag_answer
RagAnswerEdge(label) ==
    CASE label = "not supported" -> RAG_ANSWER
      [] label = "useful" -> REPORTER
      [] label = "not useful" -> WEBSEARCH

\* every draft is appended to the messages as it is made
rag_answer_AppendsDraft(documents, question, generation) ==
    [documents |-> documents, question |-> question, generation |-> generation,
     messages |-> <<generation>>]

\* answer.py rag_answer: the update it returns has no "messages" key
rag_answer(documents, question, generation) ==
    [documents |-> documents, question |-> question, generation |-> generation,
     messages |-> << >>]

\* reporter.py: the update it returns
reporter(generation) == [messages |-> <<generation>>]

\* the outcomes of the two graders: the answer grader is asked only about a
\* grounded generation
GraderOutcomes ==
    {[grounded |-> FALSE, useful |-> "none"],
     [grounded |-> TRUE, useful |-> "yes"],
     [grounded |-> TRUE, useful |-> "no"]}

\* the oracle calls of one grading, in the order they are made
ChecksOf(o, g) ==
    <<[check |-> "hallucination", gen |-> g, score |-> o.grounded]>>
      \o (IF o.grounded
          THEN <<[check |-> "answer", gen |-> g, score |-> (o.useful = "yes")]>>
          ELSE << >>)

\* The thread at the start of a turn. The checkpointer keeps every channel
\* of GraphState between turns and the input of a turn is its human message
\* alone (handle_input): a first turn starts from empty channels, a later
\* one from what the previous turn left. PreviousTurn is a retrieval turn
\* that dropped a document, searched the web and reported its answer.
FirstTurn ==
    [messages |-> <<HumanMessage(StrContent(Hello))>>,
     documents |-> << >>, generation |-> NoGeneration, web_search |-> FALSE]
PreviousTurn ==
    [messages |-> <<HumanMessage(StrContent(Hello)), AIMessage(StrContent(Hello), << >>),
                    HumanMessage(StrContent(Empty))>>,
     documents |-> <<"d0", "web0">>, generation |-> AIMessage(StrContent(Hello), << >>),
     web_search |-> TRUE]

\* rag: node (the node to run next), the GraphState fields, step (supersteps
\* taken), gens (generations made), checks (the grader calls on the latest
\* generation), retrieved and grades (the documents grade_documents read and
\* the oracle's score of each), trace (nodes run), err, method; and, as
\* history, start (the thread at the start of the turn), label (the router's
\* answer), store (whether the document store answered), context (the
\* documents the last rag_answer was given) and kept (what grade_documents
\* returned)
InitRag ==
    /\ sse = << >>
    /\ stream = "open"
    /\ nev = 0
    /\ produced = << >>
    /\ visit = [n |-> 1, node |-> COORDINATOR]
    /\ \E t \in {FirstTurn, PreviousTurn}, m \in {"function_calling", "json_schema"} :
          /\ messages = t.messages
          /\ rag = [node |-> COORDINATOR, question |-> StrContent(Empty),
                    documents |-> t.documents,
                    generation |-> t.generation, web_search |-> t.web_search, step |-> 0,
                    gens |-> 0, checks |-> << >>, retrieved |-> << >>, grades |-> << >>,
                    trace |-> << >>, err |-> "none", method |-> m,
                    start |-> t, label |-> "none", store |-> "none",
                    context |-> << >>, kept |-> [documents |-> << >>, web_search |-> FALSE]]
    /\ hitl = NoHitl
    /\ srv = NoSrv
    /\ client = NoClient
    /\ inv = NoInv
    /\ sql = NoSql
    /\ coord = NoCoord
    /\ ui = NoUi
    /\ app = NoApp
    /\ reader = NoReader
    /\ sess = NoSess
    /\ csv = NoCsv

\* node n may run: the stream is read, and the step limit is not reached
RagAt(n) == stream = "open" /\ rag.node = n /\ rag.step < RecursionLimit

\* the superstep of node n ends with `next` as its successor
Stepped(r, n, next) ==
    [r EXCEPT !.node = next, !.step = r.step + 1, !.trace = Append(r.trace, n)]

RagVisit == rag.step + 1

\* coordinator, then route_question on its conditional edge
Coordinator ==
    /\ RagAt(COORDINATOR)
    /\ ~coordinator(messages).raised
    /\ \E response \in RouterResponses :
          /\ ~question_router(response).raised
          /\ rag' = Stepped([rag EXCEPT !.question = coordinator(messages).question,
                                        !.label = response],
                            COORDINATOR, route_question(question_router(response).datasource))
          /\ YieldAll(ChunkEvents(RouterChunks(rag.method, response), COORDINATOR, "router",
                                  RagVisit)
                        \o <<UpdatesEvent(COORDINATOR, DictUpdate(<< >>), RagVisit)>>)
    /\ visit' = [n |-> RagVisit + 1, node |-> rag'.node]
    /\ UNCHANGED <<messages, hitl>>
    /\ UNCHANGED <<srv, client, inv, sql, coord, ui, app, reader, sess, csv>>

\* coordinator, then route_question raises on an answer that does not
\* validate: the task fails after the oracle's chunks were streamed, and
\* none of its writes is applied
RouterRaises ==
    /\ RagAt(COORDINATOR)
    /\ ~coordinator(messages).raised
    /\ \E response \in RouterResponses :
          /\ question_router(response).raised
          /\ rag' = [rag EXCEPT !.label = response, !.err = "routing"]
          /\ YieldThenRaise(ChunkEvents(RouterChunks(rag.method, response), COORDINATOR,
                                        "router", RagVisit))
    /\ UNCHANGED <<visit, messages, hitl>>
    /\ UNCHANGED <<srv, client, inv, sql, coord, ui, app, reader, sess, csv>>

\* retrieve.py
Retrieve ==
    /\ RagAt(RETRIEVE)
    /\ \E store \in Stores :
          LET res == retrieve_from_vectorstore(store)
              r == [rag EXCEPT !.store = IF store.up THEN "up" ELSE "down"]
          IN IF res.raised
             THEN /\ rag' = [r EXCEPT !.err = "retrieval"]
                  /\ YieldThenRaise(<< >>)
                  /\ UNCHANGED visit
             ELSE /\ rag' = Stepped([r EXCEPT !.documents = res.documents],
                                    RETRIEVE, GRADE_DOCUMENTS)
                  /\ YieldAll(<<UpdatesEvent(RETRIEVE, DictUpdate(<< >>), RagVisit)>>)
                  /\ visit' = [n |-> RagVisit + 1, node |-> rag'.node]
    /\ UNCHANGED <<messages, hitl>>
    /\ UNCHANGED <<srv, client, inv, sql, coord, ui, app, reader, sess, csv>>

RECURSIVE Repeat(_, _)
Repeat(es, n) == IF n = 0 THEN << >> ELSE es \o Repeat(es, n - 1)

\* grade_documents.py, then decide_to_generate on its conditional edge
GradeDocuments ==
    /\ RagAt(GRADE_DOCUMENTS)
    /\ \E grades \in [1..Len(rag.documents) -> DocGrades] :
          LET res == grade_documents(rag.documents, grades)
          IN rag' = Stepped([rag EXCEPT !.documents = res.documents,
                                        !.web_search = res.web_search,
                                        !.retrieved = rag.documents,
                                        !.grades = grades,
                                        !.kept = res],
                            GRADE_DOCUMENTS, decide_to_generate(res.web_search))
    /\ YieldAll(Repeat(ChunkEvents(StructuredChunks(rag.method), GRADE_DOCUMENTS,
                                   "document_grader", RagVisit),
                       Len(rag.documents))
                  \o <<UpdatesEvent(GRADE_DOCUMENTS, DictUpdate(<< >>), RagVisit)>>)
    /\ visit' = [n |-> RagVisit + 1, node |-> rag'.node]
    /\ UNCHANGED <<messages, hitl>>
    /\ UNCHANGED <<srv, client, inv, sql, coord, ui, app, reader, sess, csv>>

\* the web-search node: its documents are appended to the filtered set
web_search(docs) == docs \o <<"web">>

WebSearch ==
    /\ RagAt(WEBSEARCH)
    /\ rag' = Stepped([rag EXCEPT !.documents = web_search(rag.documents)],
                      WEBSEARCH, RAG_ANSWER)
    /\ YieldAll(<<UpdatesEvent(WEBSEARCH, DictUpdate(<< >>), RagVisit)>>)
    /\ visit' = [n |-> RagVisit + 1, node |-> rag'.node]
    /\ UNCHANGED <<messages, hitl>>
    /\ UNCHANGED <<srv, client, inv, sql, coord, ui, app, reader, sess, csv>>

\* answer.py rag_answer, then the graders on its conditional edge
RagAnswer ==
    /\ RagAt(RAG_ANSWER)
    /\ LET g == rag.gens + 1
           upd == rag_answer(rag.documents, rag.question, Generation(g))
       IN /\ \E o \in GraderOutcomes :
                rag' = Stepped([rag EXCEPT !.documents = upd.documents,
                                           !.question = upd.question,
                                           !.generation = upd.generation, !.gens = g,
                                           !.context = rag.documents,
                                           !.checks = ChecksOf(o, g)],
                               RAG_ANSWER,
                               RagAnswerEdge(grade_generation(o.grounded, o.useful = "yes")))
          /\ messages' = messages \o upd.messages
          /\ YieldAll(ChunkEvents(GenerationChunks(g), RAG_ANSWER, "generation", RagVisit)
                        \o ChunkEvents(StructuredChunks(rag.method), RAG_ANSWER,
                                       "hallucination_grader", RagVisit)
                        \o (IF rag'.node = RAG_ANSWER THEN << >>
                            ELSE ChunkEvents(StructuredChunks(rag.method), RAG_ANSWER,
                                             "answer_grader", RagVisit))
                        \o <<UpdatesEvent(RAG_ANSWER, DictUpdate(upd.messages), RagVisit)>>)
    /\ visit' = [n |-> RagVisit + 1, node |-> rag'.node]
    /\ UNCHANGED hitl
    /\ UNCHANGED <<srv, client, inv, sql, coord, ui, app, reader, sess, csv>>

\* answer.py direct_answer
DirectAnswer ==
    /\ RagAt(DIRECT_ANSWER)
    /\ LET g == rag.gens + 1
       IN /\ rag' = Stepped([rag EXCEPT !.gens = g], DIRECT_ANSWER, END)
          /\ messages' = Append(messages, Generation(g))
          /\ YieldAll(ChunkEvents(GenerationChunks(g), DIRECT_ANSWER, "generation", RagVisit)
                        \o <<UpdatesEvent(DIRECT_ANSWER, DictUpdate(<<Generation(g)>>),
                                          RagVisit)>>)
    /\ visit' = [n |-> RagVisit + 1, node |-> END]
    /\ UNCHANGED hitl
    /\ UNCHANGED <<srv, client, inv, sql, coord, ui, app, reader, sess, csv>>

\* reporter.py
Reporter ==
    /\ RagAt(REPORTER)
    /\ rag' = Stepped(rag, REPORTER, END)
    /\ messages' = messages \o reporter(rag.generation).messages
    /\ YieldAll(<<UpdatesEvent(REPORTER, DictUpdate(reporter(rag.generation).messages),
                               RagVisit)>>)
    /\ visit' = [n |-> RagVisit + 1, node |-> END]
    /\ UNCHANGED hitl
    /\ UNCHANGED <<srv, client, inv, sql, coord, ui, app, reader, sess, csv>>

\* the run is over: agent.astream is exhausted
RagEnd ==
    /\ rag.node = END
    /\ EndOfStream
    /\ UNCHANGED <<visit, messages, rag, hitl>>
    /\ UNCHANGED <<srv, client, inv, sql, coord, ui, app, reader, sess, csv>>

\* the step limit is reached with a node still to run: GraphRecursionError
RagRecursionError ==
    /\ rag.node \in RagNodes
    /\ rag.step = RecursionLimit
    /\ Raise
    /\ rag' = [rag EXCEPT !.err = "recursion"]
    /\ UNCHANGED <<visit, messages, hitl>>
    /\ UNCHANGED <<srv, client, inv, sql, coord, ui, app, reader, sess, csv>>

\* the oracle or the document store is unreachable while a node runs
RagNodeRaises ==
    /\ rag.node \in RagNodes
    /\ rag.step < RecursionLimit
    /\ Raise
    /\ rag' = [rag EXCEPT !.err = "unreachable"]
    /\ UNCHANGED <<visit, messages, hitl>>
    /\ UNCHANGED <<srv, client, inv, sql, coord, ui, app, reader, sess, csv>>

NextRag ==
    \/ Coordinator
    \/ RouterRaises
    \/ Retrieve
    \/ GradeDocuments
    \/ WebSearch
    \/ RagAnswer
    \/ DirectAnswer
    \/ Reporter
    \/ RagEnd
    \/ RagRecursionError
    \/ RagNodeRaises

SpecRag == InitRag /\ [][NextRag]_vars

\* The Pregel loop behind agent.astream runs the next node of a turn as soon
\* as the previous superstep is done, and the generator is read to its end
\* by the StreamingResponse: direct_answer, once scheduled, runs (unless the
\* turn has ended by an exception), and an exhausted stream is closed.
SpecRagFair == SpecRag /\ WF_vars(DirectAnswer) /\ WF_vars(RagEnd)

-----------------------------------------------------------------------------
(* Properties of the agentic-RAG turn, under SpecRag *)

ReporterRan == \E i \in 1..Len(rag.trace) : rag.trace[i] = REPORTER

PassedBothChecks ==
    /\ Len(rag.checks) = 2
    /\ rag.checks[1] = [check |-> "hallucination", gen |-> rag.gens, score |-> TRUE]
    /\ rag.checks[2] = [check |-> "answer", gen |-> rag.gens, score |-> TRUE]
    /\ rag.generation = Generation(rag.gens)

\* C1: the reporter is reached only for a generation that has passed the
\* hallucination check and then the answer check: when the reporter is the
\* next node, and after it has run, the latest generation is the one both
\* graders accepted, in that order, and it is the message the reporter
\* appended. (The graph has no other way into the reporter.)
C1_ReporterOnlyAfterBothChecks ==
    /\ rag.node = REPORTER => PassedBothChecks
    /\ ReporterRan =>
          /\ PassedBothChecks
          /\ messages[Len(messages)] = rag.generation
          /\ rag.trace[Len(rag.trace)] = REPORTER
          /\ rag.trace[Len(rag.trace) - 1] = RAG_ANSWER

\* the reporter has run on the third generation of the turn
C1_Witness ==
    /\ ReporterRan
    /\ rag.gens = 3
    /\ messages[Len(messages)] = Generation(3)

\* the router's label, read off the node its conditional edge led to
RouterSaid(datasource) ==
    /\ rag.trace # << >>
    /\ (IF Len(rag.trace) >= 2 THEN rag.trace[2] ELSE rag.node) = route_question(datasource)

Visited(n) == \E i \in 1..Len(rag.trace) : rag.trace[i] = n

\* C11: in every run where the router says direct_answer, the retrieve node
\* is neither visited nor scheduled during the turn, and the turn reaches the
\* end of the graph with its stream closed, unless the oracle is unreachable
\* when direct_answer calls it.
C11_DirectAnswerSkipsRetrieval ==
    /\ [](RouterSaid("direct_answer") => (~Visited(RETRIEVE) /\ rag.node # RETRIEVE))
    /\ RouterSaid("direct_answer") ~>
          ((rag.node = END /\ stream = "closed") \/ rag.err = "unreachable")

\* a turn routed to direct_answer is over: two nodes ran, the answer is the
\* last message
C11_Witness ==
    /\ RouterSaid("direct_answer")
    /\ rag.trace = <<COORDINATOR, DIRECT_ANSWER>>
    /\ rag.node = END
    /\ stream = "closed"
    /\ messages[Len(messages)] = Generation(1)

\* grade_documents has run and the oracle scored some retrieved document "no"
MarkedIrrelevant ==
    /\ Visited(GRADE_DOCUMENTS)
    /\ \E i \in 1..Len(rag.retrieved) : rag.grades[i] = "no"

\* the position of the (only) grade_documents visit in the trace
GradedAt == CHOOSE k \in 1..Len(rag.trace) : rag.trace[k] = GRADE_DOCUMENTS

\* C12: whenever grade_documents marks at least one retrieved document
\* irrelevant, the web_search flag is true after the node, the node that
\* follows it is web_search, and every later rag_answer visit has a
\* web_search visit between grade_documents and itself.
C12_IrrelevantForcesWebSearch ==
    MarkedIrrelevant =>
       /\ rag.web_search = TRUE
       /\ (IF Len(rag.trace) > GradedAt THEN rag.trace[GradedAt + 1] ELSE rag.node) = WEBSEARCH
       /\ \A j \in (GradedAt + 1)..Len(rag.trace) :
             rag.trace[j] = RAG_ANSWER =>
                \E m \in (GradedAt + 1)..(j - 1) : rag.trace[m] = WEBSEARCH

\* one of two retrieved documents was scored irrelevant, the other kept, and
\* rag_answer has run after web_search
C12_Witness ==
    /\ MarkedIrrelevant
    /\ rag.retrieved = <<"d1", "d2">>
    /\ rag.grades = <<"yes", "no">>
    /\ rag.trace = <<COORDINATOR, RETRIEVE, GRADE_DOCUMENTS, WEBSEARCH, RAG_ANSWER>>
    /\ rag.documents = <<"d1", "web">>

\* C2 (as claimed): the regeneration loop is bounded by a retry ceiling and
\* the turn ends in the terminal state with a best-effort answer, whatever
\* the graders say: a turn that is over without the oracle or the store
\* having failed has reached the end of the graph with an answer appended.
C2_TurnEndsWithAnswer ==
    (stream = "closed" /\ rag.err \notin {"unreachable", "routing", "retrieval"}) =>
       /\ rag.node = END
       /\ messages[Len(messages)].kind = "ai"
       /\ \E i \in 1..Len(sse) : sse[i].type = "message"

\* C10 (as claimed): a token event is emitted only while a generation step
\* produces an AI message, never for the router's or a grader's oracle call,
\* and never with empty content.
C10_TokensOnlyFromGeneration ==
    \A i \in 1..Len(sse) :
       sse[i].type = "token" =>
          /\ sse[i].tag.call = "generation"
          /\ sse[i].tag.node \in {RAG_ANSWER, DIRECT_ANSWER}
          /\ sse[i].text # Empty

\* the router's oracle answered with no label of RouteQuery
RoutingFailed == rag.label \in {"invalid", "unparseable"}

\* C21 (as claimed): when the router's oracle returns an unparseable or
\* invalid label the turn is fatal: the stream carries an error event, no
\* node after the coordinator runs or is scheduled, no label is assumed in
\* its place, and no message event and no token event is sent.
C21_RoutingFailureIsFatal ==
    RoutingFailed =>
       /\ stream = "closed"
       /\ \E i \in 1..Len(sse) : sse[i].type = "error"
       /\ rag.trace = << >>
       /\ rag.node = COORDINATOR
       /\ \A i \in 1..Len(sse) : sse[i].type \notin {"message", "token"}

\* a score that is neither yes nor no, whatever its case
InvalidGrade(g) == g \notin {"yes", "Yes", "no"}

\* document i of the retrieved ones is not among those grade_documents kept
Dropped(i) == \A k \in 1..Len(rag.kept.documents) : rag.kept.documents[k] # rag.retrieved[i]

\* C22 (as claimed): a grading answer that is no valid yes/no is a failure
\* of the node and not a negative grade: grade_documents does not complete
\* on one, only a valid "no" drops a document, and the web_search flag is
\* raised only by a valid "no".
C22_InvalidGradeIsFailure ==
    /\ (\E i \in 1..Len(rag.grades) : InvalidGrade(rag.grades[i])) => ~Visited(GRADE_DOCUMENTS)
    /\ \A i \in 1..Len(rag.retrieved) : Dropped(i) => rag.grades[i] = "no"
    /\ rag.kept.web_search => \E i \in 1..Len(rag.grades) : rag.grades[i] = "no"

\* C23: when the document store is unreachable the retrieve step raises and
\* the turn is over: the stream is closed by an error event and the
\* sentinel, retrieve has no successor (grade_documents and rag_answer are
\* neither run nor scheduled), and no document list, empty or not, is
\* written in place of the failed read.
C23_RetrievalFailureIsFatal ==
    rag.store = "down" =>
       /\ rag.err = "retrieval"
       /\ stream = "closed"
       /\ Len(sse) >= 2
       /\ sse[Len(sse) - 1].type = "error"
       /\ sse[Len(sse)] = Done
       /\ rag.node = RETRIEVE
       /\ ~Visited(GRADE_DOCUMENTS)
       /\ ~Visited(RAG_ANSWER)
       /\ rag.documents = rag.start.documents
       /\ rag.retrieved = << >>
       /\ rag.context = << >>

\* the store failed under the retrieve node of a first turn
C23_Witness ==
    /\ rag.store = "down"
    /\ rag.start = FirstTurn
    /\ rag.trace = <<COORDINATOR>>
    /\ rag.label = "vector_store"
    /\ sse[Len(sse)] = Done

\* the edges the control loop is specified to have
SpecifiedEdges ==
    {<<COORDINATOR, RETRIEVE>>, <<COORDINATOR, WEBSEARCH>>, <<COORDINATOR, DIRECT_ANSWER>>,
     <<RETRIEVE, GRADE_DOCUMENTS>>,
     <<GRADE_DOCUMENTS, WEBSEARCH>>, <<GRADE_DOCUMENTS, RAG_ANSWER>>,
     <<WEBSEARCH, RAG_ANSWER>>,
     <<RAG_ANSWER, RAG_ANSWER>>, <<RAG_ANSWER, REPORTER>>, <<RAG_ANSWER, WEBSEARCH>>,
     <<REPORTER, END>>, <<DIRECT_ANSWER, END>>}

\* the nodes run so far, then the one selected to run next
Path == Append(rag.trace, rag.node)

\* C27: every transition of the control loop is one of the specified edges:
\* the turn starts at the coordinator, each node visit selects one
\* successor, each (node, successor) pair is a specified edge, and the
\* terminal state follows reporter or direct_answer only.
C27_OnlySpecifiedEdges ==
    /\ Path[1] = COORDINATOR
    /\ rag.node \in RagNodes \cup {END}
    /\ \A i \in 1..(Len(Path) - 1) : <<Path[i], Path[i + 1]>> \in SpecifiedEdges
    /\ rag.node = END => rag.trace[Len(rag.trace)] \in {REPORTER, DIRECT_ANSWER}

\* a turn that took the retry edge into web_search and ended at the reporter
C27_Witness ==
    /\ rag.trace = <<COORDINATOR, RETRIEVE, GRADE_DOCUMENTS, RAG_ANSWER, WEBSEARCH,
                     RAG_ANSWER, REPORTER>>
    /\ rag.node = END

\* C28 (as claimed): documents left behind by the previous turn of a
\* checkpointed thread are never read by a node of the new turn: no
\* document rag_answer is given as context is one the thread held when the
\* turn started.
C28_NoStaleDocuments ==
    \A i \in 1..Len(rag.context) :
       \A k \in 1..Len(rag.start.documents) : rag.context[i] # rag.start.documents[k]

\* the messages appended since the turn started
NewMessages == SubSeq(messages, Len(rag.start.messages) + 1, Len(messages))

\* C29: within a turn the message list only grows at its end, and a
\* retrieval-augmented turn appends nothing until the reporter runs and
\* then exactly one AI message, the generation both graders accepted,
\* however many generations were made: no rejected generation is appended.
C29_OneAnswerAppended ==
    /\ [][/\ Len(messages') >= Len(messages)
          /\ SubSeq(messages', 1, Len(messages)) = messages]_vars
    /\ [](rag.label # "direct_answer" =>
             IF ReporterRan
             THEN /\ NewMessages = <<Generation(rag.gens)>>
                  /\ PassedBothChecks
                  /\ rag.node = END
             ELSE NewMessages = << >>)

\* the third generation of a later turn was accepted and reported, the two
\* before it were not
C29_Witness ==
    /\ ReporterRan
    /\ rag.start = PreviousTurn
    /\ rag.gens = 3
    /\ Len(messages) = 4
    /\ NewMessages = <<Generation(3)>>

\* the positions of the retrieved documents the oracle scored yes, in any case
KeptIndices == {i \in 1..Len(rag.retrieved) : rag.grades[i] \in {"yes", "Yes"}}

\* the document grader's calls, counted in the stream of the run
GraderCalls == {i \in 1..Len(produced) : produced[i].call = "document_grader"}

\* C30: grade_documents is a per-document, order-preserving filter: what it
\* returns are the documents scored yes (in any case), in their input
\* order; the oracle is asked once per document; web_search is true exactly
\* when a document was dropped, so no documents in gives no documents out
\* and a false flag.
C30_GradeDocumentsFilters ==
    Visited(GRADE_DOCUMENTS) =>
       LET out == rag.kept.documents
           inp == rag.retrieved
       IN /\ Len(out) = Cardinality(KeptIndices)
          /\ \E f \in [1..Len(out) -> KeptIndices] :
                /\ \A a, b \in 1..Len(out) : a < b => f[a] < f[b]
                /\ \A k \in 1..Len(out) : out[k] = inp[f[k]]
          /\ rag.kept.web_search <=> (Len(out) < Len(inp))
          /\ inp = << >> => (out = << >> /\ ~rag.kept.web_search)
          /\ Cardinality(GraderCalls) = Len(inp)
          /\ rag.trace[GradedAt] = GRADE_DOCUMENTS

\* of two documents the one scored "Yes" was kept and the other dropped
C30_Witness ==
    /\ Visited(GRADE_DOCUMENTS)
    /\ rag.retrieved = <<"d1", "d2">>
    /\ rag.grades = <<"no", "Yes">>
    /\ rag.kept = [documents |-> <<"d2">>, web_search |-> TRUE]

-----------------------------------------------------------------------------
(* The HITL agent: app/agents/hitl_agent.py, served by                      *)
(* streaming_message_generator and handle_input                             *)

\* every tool is reviewed
InterruptOn_ReviewAll(name) ==
    IF name = "write_file" THEN {"approve", "edit", "reject"} ELSE {"approve", "reject"}

\* hitl_agent.py lines 55-62: interrupt_on. The decisions a human may take
\* on a call of the tool; none: the tool is not reviewed.
InterruptOn(name) ==
    CASE name = "write_file" -> {"approve", "edit", "reject"}
      [] name = "execute_sql" -> {"approve", "reject"}
      [] name = "read_data" -> {}

Reviewed(call) == InterruptOn(call.name) # {}

ToolCall(id, name) == [id |-> id, name |-> name]

\* the tool calls one AI message of the model may carry, by tool name
ToolCallChoices ==
    {<< >>,
     <<"read_data">>, <<"execute_sql">>, <<"write_file">>,
     <<"read_data", "execute_sql">>}

\* the tool calls of names, numbered from id
CallsFrom(names, id) == [i \in 1..Len(names) |-> ToolCall(id + i - 1, names[i])]

\* UserInput.resume: None, or {"decisions": [...]}
NoResume == << >>
Decision(type) == [type |-> type]
Resumes ==
    {NoResume}
      \cup {<<Decision(a)>> : a \in {"approve", "reject"}}
      \cup {<<Decision("approve"), Decision("reject")>>}

\* handle_input: the kwargs of agent.astream. The input is always a new
\* Human message with the submitted content; user_input.resume is not read.
handle_input(user_input) ==
    [input |-> <<HumanMessage(StrContent(user_input.content))>>]

\* the tool bodies of hitl_agent.py return a text
ToolResult == <<"result">>

RECURSIVE CallsOf(_)
CallsOf(msgs) ==
    IF msgs = << >> THEN << >> ELSE Head(msgs).tool_calls \o CallsOf(Tail(msgs))

\* every call the thread has ever held is acted on again
LastCalls_OfThread == CallsOf(messages)

\* the last message of the thread, an AI message, holds the calls to act on
LastCalls == messages[Len(messages)].tool_calls

\* the request an interrupt carries: the reviewed calls of the AI message,
\* each with the decisions allowed for its tool
RECURSIVE ActionRequests(_)
ActionRequests(calls) ==
    IF calls = << >> THEN << >>
    ELSE (IF Reviewed(Head(calls))
          THEN <<[id |-> Head(calls).id, name |-> Head(calls).name,
                  allowed_decisions |-> InterruptOn(Head(calls).name)]>>
          ELSE << >>)
            \o ActionRequests(Tail(calls))

NoTurn == [resume |-> NoResume, pending |-> << >>, start |-> 0]

\* hitl: cursor (the node to run next, or idle / suspended / failed / done),
\* pending (the action requests of the interrupt the thread is suspended on),
\* ran (ids of the tool calls whose body has run), runs (the calls whose body
\* has run, one entry per run, in order), turn (the submission being served:
\* its resume payload, the requests pending when it arrived, the length of
\* messages before it), prev (the submission before it), trace (nodes run in
\* this turn), turns, calls (model calls made), nextId
InitHitl ==
    /\ sse = << >>
    /\ stream = "idle"
    /\ nev = 0
    /\ produced = << >>
    /\ visit = [n |-> 0, node |-> "none"]
    /\ messages = << >>
    /\ rag = NoRag
    /\ hitl = [cursor |-> "idle", pending |-> << >>, ran |-> {}, runs |-> << >>,
               turn |-> NoTurn, prev |-> NoTurn,
               trace |-> << >>, turns |-> 0, calls |-> 0, nextId |-> 1]
    /\ srv = NoSrv
    /\ client = NoClient
    /\ inv = NoInv
    /\ sql = NoSql
    /\ coord = NoCoord
    /\ ui = NoUi
    /\ app = NoApp
    /\ reader = NoReader
    /\ sess = NoSess
    /\ csv = NoCsv

\* POST /stream: streaming_message_generator(user_input, agent). The input of
\* handle_input is written to the thread and the graph starts at its entry
\* node; an interrupt the thread was suspended on is left behind.
Submit ==
    /\ stream # "open"
    /\ hitl.turns < MaxTurns
    /\ \E resume \in Resumes :
          LET user_input == [content |-> (IF resume = NoResume THEN Hello ELSE Empty),
                             resume |-> resume]
              kwargs == handle_input(user_input)
          IN /\ messages' = messages \o kwargs.input
             /\ hitl' = [hitl EXCEPT !.cursor = "model", !.pending = << >>,
                                     !.turn = [resume |-> resume,
                                               pending |-> hitl.pending,
                                               start |-> Len(messages)],
                                     !.prev = hitl.turn,
                                     !.trace = << >>, !.turns = hitl.turns + 1]
    /\ sse' = << >>
    /\ stream' = "open"
    /\ nev' = 0
    /\ produced' = << >>
    /\ visit' = [n |-> 1, node |-> "model"]
    /\ UNCHANGED rag
    /\ UNCHANGED <<srv, client, inv, sql, coord, ui, app, reader, sess, csv>>

HitlAt(n) == stream = "open" /\ hitl.cursor = n

HitlStepped(h, n, next) == [h EXCEPT !.cursor = next, !.trace = Append(h.trace, n)]

\* the model node: the LLM answers with text, or asks for tools
Model ==
    /\ HitlAt("model")
    /\ hitl.calls < MaxModelCalls
    /\ \E names \in ToolCallChoices :
          LET calls == CallsFrom(names, hitl.nextId)
              text == IF names = << >> THEN Hello ELSE Empty
              ai == AIMessage(StrContent(text), calls)
          IN /\ messages' = Append(messages, ai)
             /\ hitl' = [HitlStepped(hitl, "model", "after_model")
                           EXCEPT !.calls = hitl.calls + 1,
                                  !.nextId = hitl.nextId + Len(names)]
             /\ YieldAll(<<MessagesEvent(AIMessageChunk(StrContent(text)), "model",
                                         "generation", visit.n),
                           UpdatesEvent("model", DictUpdate(<<ai>>), visit.n)>>)
    /\ visit' = [n |-> visit.n + 1, node |-> "after_model"]
    /\ UNCHANGED rag
    /\ UNCHANGED <<srv, client, inv, sql, coord, ui, app, reader, sess, csv>>

\* the LLM call fails
ModelRaises ==
    /\ HitlAt("model")
    /\ Raise
    /\ hitl' = [hitl EXCEPT !.cursor = "failed"]
    /\ UNCHANGED <<visit, messages, rag>>
    /\ UNCHANGED <<srv, client, inv, sql, coord, ui, app, reader, sess, csv>>

\* HumanInTheLoopMiddleware.after_model: interrupt when the AI message holds
\* a reviewed call; the thread is checkpointed suspended and the run ends
\* with the "__interrupt__" update
AfterModel ==
    /\ HitlAt("after_model")
    /\ LET requests == ActionRequests(LastCalls)
       IN IF requests # << >>
          THEN /\ hitl' = [hitl EXCEPT !.cursor = "suspended", !.pending = requests,
                                       !.trace = Append(hitl.trace, "after_model")]
               /\ YieldAll(<<UpdatesEvent("after_model", InterruptUpdate(requests), visit.n)>>)
               /\ visit' = visit
          ELSE /\ hitl' = HitlStepped(hitl, "after_model",
                                      IF LastCalls = << >> THEN "done" ELSE "tools")
               /\ YieldAll(<<UpdatesEvent("after_model", NoneUpdate, visit.n)>>)
               /\ visit' = [n |-> visit.n + 1, node |-> hitl'.cursor]
    /\ UNCHANGED <<messages, rag>>
    /\ UNCHANGED <<srv, client, inv, sql, coord, ui, app, reader, sess, csv>>

RECURSIVE ToolMessages(_)
ToolMessages(calls) ==
    IF calls = << >> THEN << >>
    ELSE <<ToolMessage(StrContent(ToolResult), Head(calls).id)>> \o ToolMessages(Tail(calls))

RECURSIVE ToolEvents(_, _)
ToolEvents(calls, v) ==
    IF calls = << >> THEN << >>
    ELSE <<MessagesEvent(ToolMessageItem, "tools", "none", v),
           UpdatesEvent("tools",
                        DictUpdate(<<ToolMessage(StrContent(ToolResult), Head(calls).id)>>), v)>>
            \o ToolEvents(Tail(calls), v)

\* the tools node: the body of every call of the AI message runs
Tools ==
    /\ HitlAt("tools")
    /\ LET calls == LastCalls
       IN /\ messages' = messages \o ToolMessages(calls)
          /\ hitl' = [HitlStepped(hitl, "tools", "model")
                        EXCEPT !.ran = hitl.ran \cup {calls[i].id : i \in 1..Len(calls)},
                               !.runs = hitl.runs \o calls]
          /\ YieldAll(ToolEvents(calls, visit.n))
    /\ visit' = [n |-> visit.n + 1, node |-> "model"]
    /\ UNCHANGED rag
    /\ UNCHANGED <<srv, client, inv, sql, coord, ui, app, reader, sess, csv>>

\* the run is over: agent.astream is exhausted
HitlEnd ==
    /\ HitlAt("done")
    /\ EndOfStream
    /\ hitl' = [hitl EXCEPT !.cursor = "idle"]
    /\ UNCHANGED <<visit, messages, rag>>
    /\ UNCHANGED <<srv, client, inv, sql, coord, ui, app, reader, sess, csv>>

NextHitl ==
    \/ Submit
    \/ Model
    \/ ModelRaises
    \/ AfterModel
    \/ Tools
    \/ HitlEnd

SpecHitl == InitHitl /\ [][NextHitl]_vars

-----------------------------------------------------------------------------
(* Properties of the HITL thread, under SpecHitl *)

\* the request being served has ended, and not by a failure of the LLM: its
\* stream is closed with the thread finished or suspended
TurnOver == stream = "closed" /\ hitl.cursor \in {"idle", "suspended"}

\* the turn was submitted with a resume payload to a thread suspended on an
\* interrupt
ResumedTurn == hitl.turn.resume # NoResume /\ hitl.turn.pending # << >>

\* the messages appended since the turn was submitted
TurnMessages == SubSeq(messages, hitl.turn.start + 1, Len(messages))

\* the tool calls the thread's AI messages carry
AllCalls ==
    UNION {{messages[i].tool_calls[k] : k \in 1..Len(messages[i].tool_calls)} :
              i \in 1..Len(messages)}

ToolMessagesFor(id) ==
    {i \in 1..Len(messages) : messages[i].kind = "tool" /\ messages[i].tool_call_id = id}

\* the text of the Tool message a reject decision yields
Refusal == <<"rejected">>

\* C3 (as claimed): the body of a reviewed tool runs for a call only once an
\* approve or edit decision for that call has been applied (the served graph
\* is never handed a decision, so: only never); while the thread is
\* suspended the pending calls have not run; and after a turn that resumes
\* with a reject decision the call has not run and a Tool message for it
\* signals the refusal.
C3_ReviewedToolGated ==
    /\ \A c \in AllCalls : Reviewed(c) => c.id \notin hitl.ran
    /\ hitl.cursor = "suspended" =>
          \A i \in 1..Len(hitl.pending) : hitl.pending[i].id \notin hitl.ran
    /\ (TurnOver /\ ResumedTurn) =>
          \A i \in 1..Len(hitl.turn.pending) :
             (i <= Len(hitl.turn.resume) /\ hitl.turn.resume[i].type = "reject") =>
                /\ hitl.turn.pending[i].id \notin hitl.ran
                /\ \E j \in ToolMessagesFor(hitl.turn.pending[i].id) :
                      convert_message_content_to_string(messages[j].content) = Refusal

\* C4 (as claimed): a turn that calls a reviewed tool carries, before its
\* sentinel, a message event of type interrupt (with the pending requests),
\* and no error event.
C4_InterruptMessageStreamed ==
    (TurnOver /\ hitl.cursor = "suspended") =>
       /\ \E i \in 1..(Len(sse) - 1) :
             sse[i].type = "message" /\ sse[i].msg.type = "interrupt"
       /\ \A i \in 1..Len(sse) : sse[i].type # "error"

\* C5 (as claimed): exactly N decisions, in order, for N outstanding requests
\* that allow {approve, reject} resume the thread and produce exactly N Tool
\* messages, the i-th for the i-th request: the tool's result and the body
\* run for approve, the refusal and no run for reject.
C5_ResumeYieldsToolMessages ==
    (/\ TurnOver
     /\ ResumedTurn
     /\ Len(hitl.turn.resume) = Len(hitl.turn.pending)
     /\ \A i \in 1..Len(hitl.turn.pending) :
           hitl.turn.pending[i].allowed_decisions = {"approve", "reject"})
    =>
       \A i \in 1..Len(hitl.turn.pending) :
          LET id == hitl.turn.pending[i].id
          IN /\ Cardinality(ToolMessagesFor(id)) = 1
             /\ \A j \in ToolMessagesFor(id) :
                   IF hitl.turn.resume[i].type = "approve"
                   THEN /\ id \in hitl.ran
                        /\ convert_message_content_to_string(messages[j].content) = ToolResult
                   ELSE /\ id \notin hitl.ran
                        /\ convert_message_content_to_string(messages[j].content) = Refusal

\* C6 (as claimed): a submission whose resume field is present continues the
\* suspended thread: it appends no Human message and does not start the
\* graph again at its entry node, the model.
C6_ResumeIsNotNewInput ==
    ResumedTurn =>
       /\ \A i \in 1..Len(TurnMessages) : TurnMessages[i].kind # "human"
       /\ hitl.trace # << >> => hitl.trace[1] # "model"

\* the turn was submitted to a suspended thread with a resume payload whose
\* number of decisions differs from the number of outstanding requests
MismatchedTurn ==
    /\ ResumedTurn
    /\ Len(hitl.turn.resume) # Len(hitl.turn.pending)

\* C13 (as claimed): a resume payload whose decision count does not match
\* the outstanding requests is rejected as invalid input: during that turn no
\* node runs and no Tool message is appended, and when it is over the thread
\* is suspended on the same pending requests.
C13_MismatchRejected ==
    MismatchedTurn =>
       /\ hitl.trace = << >>
       /\ \A i \in 1..Len(TurnMessages) : TurnMessages[i].kind # "tool"
       /\ TurnOver => (hitl.cursor = "suspended" /\ hitl.pending = hitl.turn.pending)

\* the decision set of the turn before was submitted again: both turns carry
\* the same resume payload, and the first of them reached a thread suspended
\* on a request that the payload approves
Replay ==
    /\ hitl.prev.resume # NoResume
    /\ hitl.prev.pending # << >>
    /\ hitl.turn.resume = hitl.prev.resume
    /\ hitl.prev.resume[1].type = "approve"

HolderOf(c) ==
    CHOOSE i \in 1..Len(messages) :
       \E k \in 1..Len(messages[i].tool_calls) : messages[i].tool_calls[k] = c

\* C15 (as claimed): each tool call of an AI message is answered by at most
\* one Tool message with its identifier, and a call that is not answered is
\* one the thread is still working on or suspended on: its AI message is the
\* last message of the thread, nothing has been appended after it.
C15_ToolCallsAnswered ==
    \A c \in AllCalls :
       /\ Cardinality(ToolMessagesFor(c.id)) <= 1
       /\ ToolMessagesFor(c.id) = {} => HolderOf(c) = Len(messages)

\* the AI message at index i calls unreviewed tools only, and at least one
UnreviewedOnly(i) ==
    /\ messages[i].kind = "ai"
    /\ messages[i].tool_calls # << >>
    /\ \A k \in 1..Len(messages[i].tool_calls) : ~Reviewed(messages[i].tool_calls[k])

-----------------------------------------------------------------------------
(* SpecServe: POST /stream requests served at once by one process, over the *)
(* checkpointer that lifespan attaches to every agent. Each request runs    *)
(* the agentic-RAG graph on the thread its thread_id names.                 *)

Threads == {"t1", "t2"}
Requests == 1..MaxRequests

\* the content of request r, and the oracle's answer to it
Question(r) == [i \in 1..r |-> "q"]
Answer(r) == Generation(r)

\* The oracle of SpecServe: the router has every question answered directly,
\* so a turn is two supersteps, coordinator and direct_answer; were it to
\* take another edge, every retrieved document is graded relevant and every
\* generation grounded and useful. (SpecRag follows all the edges.)
ServeRoutes == {"direct_answer"}
ServeFlags == {FALSE}
ServeGrades == {"useful"}

\* graph.py lines 80-99: the nodes an edge leads to from node n
Successors(n) ==
    CASE n = COORDINATOR -> {route_question(d) : d \in ServeRoutes}
      [] n = RETRIEVE -> {GRADE_DOCUMENTS}
      [] n = GRADE_DOCUMENTS -> {decide_to_generate(b) : b \in ServeFlags}
      [] n = WEBSEARCH -> {RAG_ANSWER}
      [] n = RAG_ANSWER -> {RagAnswerEdge(l) : l \in ServeGrades}
      [] n = DIRECT_ANSWER -> {END}
      [] n = REPORTER -> {END}

\* the messages node n of request r adds to the state
NodeMessages(n, r) == IF n \in {DIRECT_ANSWER, REPORTER} THEN <<Answer(r)>> ELSE << >>

\* the stream events of one visit of node n, the v-th of its run: the chunks
\* of a generation, then the node's update
NodeEvents(n, r, v) ==
    (IF n \in {RAG_ANSWER, DIRECT_ANSWER}
     THEN ChunkEvents(GenerationChunks(r), n, "generation", v)
     ELSE << >>)
      \o <<UpdatesEvent(n, DictUpdate(NodeMessages(n, r)), v)>>

\* every run writes to one and the same thread
CheckpointKey_Shared(thread_id) == "t1"

\* handle_input lines 122-126: the thread the run's config names
CheckpointKey(thread_id) == thread_id

\* a checkpoint: the channel values and the node to run next
Checkpoint(msgs, next) == [messages |-> msgs, next |-> next]
NoCheckpoint == Checkpoint(<< >>, "none")

NoGenerator == [sse |-> << >>, nev |-> 0, produced |-> << >>, stream |-> "idle"]

\* a request: state ("idle" | "running" | "done" | "failed" | "crashed"),
\* the thread it names, node (the node to run next), messages (the channel
\* values of its run), steps, found (the cursor of the checkpoint it loaded),
\* first (the first node it ran), gen (its streaming_message_generator)
NoRun ==
    [state |-> "idle", thread |-> "none", node |-> "none", messages |-> << >>,
     steps |-> 0, found |-> "none", first |-> "none", gen |-> NoGenerator]

InitServe ==
    /\ sse = << >>
    /\ stream = "idle"
    /\ nev = 0
    /\ produced = << >>
    /\ visit = [n |-> 0, node |-> "none"]
    /\ messages = << >>
    /\ rag = NoRag
    /\ hitl = NoHitl
    /\ srv = [crashed |-> FALSE,
              store |-> [t \in Threads |-> NoCheckpoint],
              run |-> [r \in Requests |-> NoRun]]
    /\ client = NoClient
    /\ inv = NoInv
    /\ sql = NoSql
    /\ coord = NoCoord
    /\ ui = NoUi
    /\ app = NoApp
    /\ reader = NoReader
    /\ sess = NoSess
    /\ csv = NoCsv

Others == <<sse, stream, nev, produced, visit, messages, rag, hitl, client, inv, sql, coord, ui, app, reader, sess, csv>>

\* chat.py stream, streaming_message_generator lines 74-80: the request is
\* accepted whatever else is being served; the run loads the latest
\* checkpoint of its thread, writes its input to it and starts at the entry
\* node
Serve(r, thread_id) ==
    /\ srv.run[r].state = "idle"
    /\ LET key == CheckpointKey(thread_id)
           loaded == srv.store[key]
           msgs == loaded.messages \o <<HumanMessage(StrContent(Question(r)))>>
       IN srv' = [srv EXCEPT
                    !.run[r] = [state |-> "running", thread |-> thread_id,
                                node |-> COORDINATOR, messages |-> msgs, steps |-> 0,
                                found |-> loaded.next, first |-> "none",
                                gen |-> [NoGenerator EXCEPT !.stream = "open"]],
                    !.store[key] = Checkpoint(msgs, COORDINATOR)]
    /\ UNCHANGED Others

\* one superstep of the run of request r: its node runs on the run's own
\* channel values, the events are streamed, the checkpoint is written
Step(r) ==
    /\ srv.run[r].state = "running"
    /\ srv.run[r].node \in RagNodes
    /\ srv.run[r].steps < RecursionLimit
    /\ \E next \in Successors(srv.run[r].node) :
          LET run == srv.run[r]
              n == run.node
              msgs == run.messages \o NodeMessages(n, r)
          IN srv' = [srv EXCEPT
                       !.run[r] = [run EXCEPT
                                     !.node = next, !.messages = msgs,
                                     !.steps = run.steps + 1,
                                     !.first = IF run.first = "none" THEN n ELSE run.first,
                                     !.gen = PushAll(run.gen, NodeEvents(n, r, run.steps + 1))],
                       !.store[CheckpointKey(run.thread)] = Checkpoint(msgs, next)]
    /\ UNCHANGED Others

\* agent.astream of request r is exhausted
Finish(r) ==
    /\ srv.run[r].state = "running"
    /\ srv.run[r].node = END
    /\ srv' = [srv EXCEPT !.run[r].state = "done",
                          !.run[r].gen.sse = OnEnd(srv.run[r].gen.sse),
                          !.run[r].gen.stream = "closed"]
    /\ UNCHANGED Others

\* agent.astream of request r raises: the oracle or the document store is
\* unreachable while a node runs
Fail(r) ==
    /\ srv.run[r].state = "running"
    /\ srv.run[r].node \in RagNodes
    /\ srv' = [srv EXCEPT !.run[r].state = "failed",
                          !.run[r].gen.sse = OnRaise(srv.run[r].gen.sse),
                          !.run[r].gen.stream = "closed"]
    /\ UNCHANGED Others

\* the process dies and is started again: the runs in flight are lost with
\* their streams, the checkpoints stay
Crash ==
    /\ ~srv.crashed
    /\ \E r \in Requests : srv.run[r].state = "running"
    /\ srv' = [srv EXCEPT
                  !.crashed = TRUE,
                  !.run = [r \in Requests |->
                             IF srv.run[r].state = "running"
                             THEN [srv.run[r] EXCEPT !.state = "crashed"]
                             ELSE srv.run[r]]]
    /\ UNCHANGED Others

NextServe ==
    \/ \E r \in Requests, t \in Threads : Serve(r, t)
    \/ \E r \in Requests : Step(r)
    \/ \E r \in Requests : Finish(r)
    \/ \E r \in Requests : Fail(r)
    \/ Crash

SpecServe == InitServe /\ [][NextServe]_vars

-----------------------------------------------------------------------------
(* Properties of the server, under SpecServe *)

Running(r) == srv.run[r].state = "running"

\* C17 (as claimed): at most one run is in flight per thread: two requests
\* that carry the same thread_id are never being served at the same time.
C17_OneRunPerThread ==
    \A r1, r2 \in Requests :
       (r1 # r2 /\ Running(r1) /\ Running(r2)) => srv.run[r1].thread # srv.run[r2].thread

\* no other request has named the thread of request r
Alone(r) ==
    \A o \in Requests \ {r} :
       srv.run[o].state = "idle" \/ srv.run[o].thread # srv.run[r].thread

\* what the run of request r holds after k supersteps when it is the only
\* request there has ever been: its messages, and the events it has streamed
RECURSIVE SoloEvents(_, _)
SoloEvents(r, k) ==
    IF k = 0 THEN << >>
    ELSE SoloEvents(r, k - 1)
           \o NodeEvents(IF k = 1 THEN COORDINATOR ELSE DIRECT_ANSWER, r, k)

SoloMessages(r, k) ==
    <<HumanMessage(StrContent(Question(r)))>> \o (IF k >= 2 THEN <<Answer(r)>> ELSE << >>)

SoloStream(r) ==
    LET run == srv.run[r]
        g == PushAll([NoGenerator EXCEPT !.stream = "open"], SoloEvents(r, run.steps))
    IN CASE run.state = "done" -> OnEnd(g.sse)
         [] run.state = "failed" -> OnRaise(g.sse)
         [] OTHER -> g.sse

\* a step writes the checkpoint of thread t
Writes(t) == srv'.store[t] # srv.store[t]

\* C18: threads are isolated. A step of the server that writes a thread's
\* checkpoint is a step of a request that names that thread; and a request
\* whose thread no other request has named holds the messages, has streamed
\* the events and has checkpointed the state it would have if the other
\* requests had not been served at all.
C18_ThreadsIsolated ==
    /\ [][\A t \in Threads :
             Writes(t) =>
                \E r \in Requests :
                   /\ srv'.run[r] # srv.run[r]
                   /\ srv'.run[r].thread = t]_vars
    /\ [](\A r \in Requests :
             (srv.run[r].state # "idle" /\ Alone(r)) =>
                /\ srv.run[r].messages = SoloMessages(r, srv.run[r].steps)
                /\ srv.run[r].gen.sse = SoloStream(r)
                /\ srv.store[srv.run[r].thread] =
                      Checkpoint(srv.run[r].messages, srv.run[r].node))

\* two requests on two threads are in flight, each between its two nodes
C18_Witness ==
    /\ Running(1) /\ Running(2)
    /\ srv.run[1].thread = "t1" /\ srv.run[2].thread = "t2"
    /\ srv.run[1].steps = 1 /\ srv.run[2].steps = 1
    /\ srv.store["t1"].messages # srv.store["t2"].messages

\* request r was accepted after a crash, on a thread whose latest checkpoint
\* was written by a run the crash cut short: a node is still to run there
Recovers(r) ==
    /\ srv.crashed
    /\ srv.run[r].state \in {"running", "done", "failed"}
    /\ srv.run[r].found \in RagNodes
    /\ \A o \in Requests \ {r} :
          srv.run[o].thread = srv.run[r].thread => srv.run[o].state = "crashed"

\* C19 (as claimed): after a crash the thread resumes at the node following
\* the last completed one, and runs no completed node a second time: the
\* first node run on a thread whose checkpoint has a node still to run is
\* that node.
C19_ResumesAtCheckpoint ==
    \A r \in Requests :
       (Recovers(r) /\ srv.run[r].first # "none") => srv.run[r].first = srv.run[r].found

-----------------------------------------------------------------------------
(* SpecWire: one message through langchain_to_chat_message, model_dump and  *)
(* json.dumps onto a line of the event stream, and through                  *)
(* AgentClient._parse_stream_line back into a ChatMessage. The line is a    *)
(* sequence of characters; a key with its colon, a word of the protocol     *)
(* and a tool name each count as one character.                             *)

QUOTE == "\""
BACKSLASH == "\\"
NEWLINE == "\n"
SPACE == " "

\* characters a content may hold; "U+00E9" is one character, not ASCII
WireChars == {"n", SPACE, QUOTE, BACKSLASH, NEWLINE, "U+00E9"}

WireStrings == SeqsUpTo(WireChars, MaxWireLen)

\* every character is written as it is
JsonEscape_Raw(c) == <<c>>

\* json.dumps of one character of a str (ensure_ascii is left True)
JsonEscape(c) ==
    CASE c = QUOTE -> <<BACKSLASH, QUOTE>>
      [] c = BACKSLASH -> <<BACKSLASH, BACKSLASH>>
      [] c = NEWLINE -> <<BACKSLASH, "n">>
      [] c = "U+00E9" -> <<BACKSLASH, "u00e9">>
      [] OTHER -> <<c>>

RECURSIVE EscapeAll(_)
EscapeAll(str) == IF str = << >> THEN << >> ELSE JsonEscape(Head(str)) \o EscapeAll(Tail(str))

\* json.dumps of a str
json_dumps_str(str) == <<QUOTE>> \o EscapeAll(str) \o <<QUOTE>>

\* json.dumps of one ToolCall
DumpCall(c) ==
    <<"{", "name:">> \o json_dumps_str(<<c.name>>) \o <<",", "id:">>
      \o json_dumps_str(<<ToString(c.id)>>) \o <<"}">>

RECURSIVE DumpCalls(_)
DumpCalls(calls) ==
    IF calls = << >> THEN << >>
    ELSE DumpCall(Head(calls))
           \o (IF Tail(calls) = << >> THEN << >> ELSE <<",">>)
           \o DumpCalls(Tail(calls))

\* json.dumps(chat_message.model_dump()); "rest" stands for the fields
\* response_metadata, action_requests and review_configs
DumpChatMessage(cm) ==
    <<"{", "type:">> \o json_dumps_str(<<cm.type>>)
      \o <<",", "content:">> \o json_dumps_str(cm.content)
      \o <<",", "tool_calls:", "[">> \o DumpCalls(cm.tool_calls) \o <<"]">>
      \o <<",", "tool_call_id:">>
      \o (IF cm.type = "tool" THEN json_dumps_str(<<ToString(cm.tool_call_id)>>)
          ELSE <<"null">>)
      \o <<",", "rest", "}">>

\* json.dumps({'type': type, 'content': content})
DumpEvent(type, content) ==
    <<"{", "type:">> \o json_dumps_str(<<type>>) \o <<",", "content:">> \o content \o <<"}">>

\* f"data: {...}\n\n"
SseLine(json) == <<"data: ">> \o json \o <<NEWLINE, NEWLINE>>

\* message_utils.py lines 92-98 for one message: what goes onto the wire
EncodeWire(m) ==
    LET cm == langchain_to_chat_message(m)
    IN IF cm.type = "ValueError"
       THEN SseLine(DumpEvent("error", json_dumps_str(UnexpectedError)))
       ELSE SseLine(DumpEvent("message", DumpChatMessage(cm)))

\* response.iter_lines(): the text split at its line ends
SplitLines(w, cur) ==
    LET ends == {i \in 1..Len(w) : w[i] = NEWLINE}
        \* the k-th line end, 0 for the start of the text
        EndAt(k) ==
            IF k = 0 THEN 0
            ELSE CHOOSE i \in ends : Cardinality({j \in ends : j < i}) = k - 1
        last == IF ends = {} THEN 0 ELSE EndAt(Cardinality(ends))
        count == Cardinality(ends) + (IF last < Len(w) \/ (ends = {} /\ cur # << >>)
                                      THEN 1 ELSE 0)
    IN [k \in 1..count |->
           (IF k = 1 THEN cur ELSE << >>)
             \o (IF k <= Cardinality(ends)
                 THEN SubSeq(w, EndAt(k - 1) + 1, EndAt(k) - 1)
                 ELSE SubSeq(w, last + 1, Len(w)))]

Whitespace == {SPACE, NEWLINE}

RECURSIVE lstrip(_)
lstrip(w) == IF w # << >> /\ Head(w) \in Whitespace THEN lstrip(Tail(w)) ELSE w

RECURSIVE rstrip(_)
rstrip(w) ==
    IF w # << >> /\ w[Len(w)] \in Whitespace THEN rstrip(SubSeq(w, 1, Len(w) - 1)) ELSE w

\* str.strip()
strip(w) == rstrip(lstrip(w))

Tok(w, i) == IF i \in 1..Len(w) THEN w[i] ELSE "EOF"

Failed(i) == [ok |-> FALSE, val |-> << >>, next |-> i]

\* json.loads inside a str, from position i to the closing quote
RECURSIVE ReadChars(_, _)
ReadChars(w, i) ==
    IF i > Len(w) THEN Failed(i)
    ELSE IF w[i] = QUOTE THEN [ok |-> TRUE, val |-> << >>, next |-> i + 1]
    ELSE IF w[i] = NEWLINE THEN Failed(i)
    ELSE IF w[i] = BACKSLASH
         THEN LET e == Tok(w, i + 1)
                  c == CASE e = QUOTE -> QUOTE
                         [] e = BACKSLASH -> BACKSLASH
                         [] e = "n" -> NEWLINE
                         [] e = "u00e9" -> "U+00E9"
                         [] OTHER -> "EOF"
                  r == ReadChars(w, i + 2)
              IN IF c = "EOF" THEN Failed(i)
                 ELSE [ok |-> r.ok, val |-> <<c>> \o r.val, next |-> r.next]
    ELSE LET r == ReadChars(w, i + 1)
         IN [ok |-> r.ok, val |-> <<w[i]>> \o r.val, next |-> r.next]

\* json.loads of a str that starts at position i
ReadString(w, i) == IF Tok(w, i) = QUOTE THEN ReadChars(w, i + 1) ELSE Failed(i)

\* the tokens toks stand at position i
Expect(w, i, toks) ==
    /\ i + Len(toks) - 1 <= Len(w)
    /\ SubSeq(w, i, i + Len(toks) - 1) = toks

\* the tool-call identifier a str of the wire stands for
IdOf(str) ==
    IF Len(str) = 1 /\ \E i \in 1..9 : ToString(i) = str[1]
    THEN CHOOSE i \in 1..9 : ToString(i) = str[1]
    ELSE 0

\* json.loads of the list of tool calls, from position i to its "]"
RECURSIVE ReadCalls(_, _)
ReadCalls(w, i) ==
    IF Tok(w, i) = "]" THEN [ok |-> TRUE, val |-> << >>, next |-> i + 1]
    ELSE IF Tok(w, i) = "," THEN ReadCalls(w, i + 1)
    ELSE IF ~Expect(w, i, <<"{", "name:">>) THEN Failed(i)
    ELSE LET name == ReadString(w, i + 2)
             id == ReadString(w, name.next + 2)
             r == ReadCalls(w, id.next + 1)
         IN IF /\ name.ok /\ Len(name.val) = 1
               /\ Expect(w, name.next, <<",", "id:">>)
               /\ id.ok /\ IdOf(id.val) # 0
               /\ Tok(w, id.next) = "}"
               /\ r.ok
            THEN [ok |-> TRUE, val |-> <<ToolCall(IdOf(id.val), name.val[1])>> \o r.val,
                  next |-> r.next]
            ELSE Failed(i)

\* app/schemas/chat.py, the ChatMessage of the client: the roles it accepts
ClientTypes == {"human", "ai", "tool", "custom"}

\* what _parse_stream_line returns or raises
Parsed(kind, msg, text) == [kind |-> kind, msg |-> msg, text |-> text]
Raised == Parsed("raise", NoMsg, << >>)

\* json.loads of parsed["content"] at position i, then
\* ChatMessage.model_validate: fields the model does not know are ignored
model_validate(w, i) ==
    IF ~Expect(w, i, <<"{", "type:">>) THEN Raised
    ELSE LET type == ReadString(w, i + 2)
             content == ReadString(w, type.next + 2)
             calls == ReadCalls(w, content.next + 3)
             idAt == calls.next + 2
             id == ReadString(w, idAt)
             after == IF Tok(w, idAt) = "null" THEN idAt + 1 ELSE id.next
         IN IF /\ type.ok /\ Len(type.val) = 1 /\ type.val[1] \in ClientTypes
               /\ Expect(w, type.next, <<",", "content:">>)
               /\ content.ok
               /\ Expect(w, content.next, <<",", "tool_calls:", "[">>)
               /\ calls.ok
               /\ Expect(w, calls.next, <<",", "tool_call_id:">>)
               /\ (Tok(w, idAt) = "null" \/ (id.ok /\ IdOf(id.val) # 0))
               /\ Expect(w, after, <<",", "rest", "}", "}">>)
               /\ after + 3 = Len(w)
            THEN Parsed("message",
                        ChatMessage(type.val[1], content.val, calls.val,
                                    IF Tok(w, idAt) = "null" THEN NoId ELSE IdOf(id.val)),
                        << >>)
            ELSE Raised

\* agent_client.py lines 105-128
parse_stream_line(l) ==
    LET line == strip(l)
    IN IF Tok(line, 1) # "data: " THEN Parsed("none", NoMsg, << >>)
       ELSE LET data == Tail(line)
                type == ReadString(data, 3)
                text == ReadString(data, type.next + 2)
            IN IF data = <<"[DONE]">> THEN Parsed("none", NoMsg, << >>)
               ELSE IF ~(/\ Expect(data, 1, <<"{", "type:">>)
                         /\ type.ok /\ Len(type.val) = 1
                         /\ Expect(data, type.next, <<",", "content:">>))
                    THEN Raised
               ELSE CASE type.val[1] = "message" -> model_validate(data, type.next + 2)
                      [] type.val[1] = "token" ->
                           IF text.ok THEN Parsed("token", NoMsg, text.val) ELSE Raised
                      [] type.val[1] = "error" ->
                           IF text.ok
                           THEN Parsed("message",
                                       ChatMessage("ai", <<"Error: ">> \o text.val, << >>, NoId),
                                       << >>)
                           ELSE Raised
                      [] OTHER -> Parsed("none", NoMsg, << >>)

\* agent_client.py stream: the first line that is not blank is parsed
FirstLine(lines) ==
    IF \E i \in 1..Len(lines) : strip(lines[i]) # << >>
    THEN lines[CHOOSE i \in 1..Len(lines) :
                  /\ strip(lines[i]) # << >>
                  /\ \A j \in 1..(i - 1) : strip(lines[j]) = << >>]
    ELSE << >>

\* the contents a message may have: a str, or a list of blocks
WireContents ==
    {StrContent(str) : str \in WireStrings}
      \cup {ListContent(<<TextItem(<<c>>)>>) : c \in WireChars}
      \cup {ListContent(<<StrItem(<<c>>), ImageItem>>) : c \in WireChars}

WireCalls ==
    {<< >>, <<ToolCall(1, "read_data")>>, <<ToolCall(1, "execute_sql"), ToolCall(2, "read_data")>>}

WireMessages ==
    {HumanMessage(c) : c \in WireContents}
      \cup {AIMessage(c, calls) : c \in WireContents, calls \in WireCalls}
      \cup {ToolMessage(c, id) : c \in WireContents, id \in 1..2}
      \cup {SystemMessage(StrContent(Hello))}

\* client: phase ("wait" | "line" | "parsed"), wire (the characters the
\* server has sent), got (what _parse_stream_line returned)
InitWire ==
    /\ sse = << >>
    /\ stream = "open"
    /\ nev = 0
    /\ produced = << >>
    /\ visit = [n |-> 0, node |-> "none"]
    /\ \E m \in WireMessages : messages = <<m>>
    /\ rag = NoRag
    /\ hitl = NoHitl
    /\ srv = NoSrv
    /\ client = [phase |-> "wait", wire |-> << >>, got |-> Parsed("none", NoMsg, << >>)]
    /\ inv = NoInv
    /\ sql = NoSql
    /\ coord = NoCoord
    /\ ui = NoUi
    /\ app = NoApp
    /\ reader = NoReader
    /\ sess = NoSess
    /\ csv = NoCsv

\* the generator yields the message's line
Send ==
    /\ client.phase = "wait"
    /\ client' = [client EXCEPT !.phase = "line", !.wire = EncodeWire(messages[1])]
    /\ UNCHANGED <<sse, stream, nev, produced, visit, messages, rag, hitl, srv, inv, sql, coord, ui, app, reader, sess, csv>>

\* the client reads the line and parses it
Receive ==
    /\ client.phase = "line"
    /\ client' = [client EXCEPT
                    !.phase = "parsed",
                    !.got = parse_stream_line(FirstLine(SplitLines(client.wire, << >>)))]
    /\ UNCHANGED <<sse, stream, nev, produced, visit, messages, rag, hitl, srv, inv, sql, coord, ui, app, reader, sess, csv>>

NextWire ==
    \/ Send
    \/ Receive

SpecWire == InitWire /\ [][NextWire]_vars

-----------------------------------------------------------------------------
(* Properties of the wire format, under SpecWire *)

Original == messages[1]
Decoded == client.got.msg

\* type, tool_calls and tool_call_id of the decoded message are those of the
\* original
SameEnvelope ==
    /\ client.got.kind = "message"
    /\ Decoded.type = Original.kind
    /\ Decoded.tool_calls = Original.tool_calls
    /\ ToString(Decoded.tool_call_id) = ToString(Original.tool_call_id)

\* the text blocks of a list content, one after the other
RECURSIVE TextOf(_)
TextOf(items) ==
    IF items = << >> THEN << >>
    ELSE (IF Head(items) = ImageItem THEN << >> ELSE Head(items).text) \o TextOf(Tail(items))

-----------------------------------------------------------------------------
(* SpecInvoke: one request to POST /chat/invoke (app/api/v1/chat.py) over  *)
(* the agents table that get_agent reads (app/utils/agent_utils.py).       *)

\* the keys of app.agents.agents
AgentIds == {"chatbot", "rag-agent", "hitl-agent"}
DEFAULT_AGENT_ID == "chatbot"

\* agent_id values of rows the agents table may hold: registered agents and
\* one the process has no graph for
RowIds == {"chatbot", "rag-agent", "custom"}

\* what a request may name: a row, a registered agent without a row, or
\* nothing
RequestedIds == RowIds \cup {"hitl-agent", ""}

\* get_available_agent_ids: the rows with is_active true. active is the set
\* of their ids.
get_available_agent_ids(active) == active

\* get_agent: the default agent when no row is active, AgentNotFound for an
\* id that is not active, and the KeyError of _AGENTS[agent_id] for an
\* active id the registry does not hold
get_agent(agent_id, active) ==
    LET available_agent_ids == get_available_agent_ids(active)
    IN IF available_agent_ids = {}
       THEN [raised |-> "none", graph |-> DEFAULT_AGENT_ID]
       ELSE IF agent_id \notin available_agent_ids
       THEN [raised |-> "AgentNotFound", graph |-> "none"]
       ELSE IF agent_id \notin AgentIds
       THEN [raised |-> "KeyError", graph |-> "none"]
       ELSE [raised |-> "none", graph |-> agent_id]

\* message_utils.py line 118: the parameters of handle_input; chat.py line
\* 91: the arguments invoke calls it with
HandleInputParams == <<"user_input">>
InvokeCallArgs == <<"user_input", "agent">>

\* a Python call binds its positional arguments to the parameters, or
\* raises TypeError
Binds(params, args) == Len(args) <= Len(params)

\* what agent.ainvoke(stream_mode=["updates", "values"]) may do: return
\* events that end with the final state, or with an interrupt whose value
\* is a text or a dict (the request of the HITL middleware), or raise
RunValues(m) == [kind |-> "values", last |-> m, value |-> "none"]
RunInterrupt(v) == [kind |-> "interrupt", last |-> SystemMessage(StrContent(Empty)), value |-> v]
RunRaises == [kind |-> "raise", last |-> SystemMessage(StrContent(Empty)), value |-> "none"]
AgentRuns ==
    {RunValues(AIMessage(StrContent(Hello), << >>)),
     RunValues(ToolMessage(StrContent(Hello), 1)),
     RunInterrupt("str"), RunInterrupt("dict"), RunRaises}

Response(status, detail, body) == [status |-> status, detail |-> detail, body |-> body]

\* chat.py lines 93-114: the try block. AIMessage(content=<dict>) fails
\* validation, and so does every other exception of the block: HTTP 500.
InvokeTry(run) ==
    CASE run.kind = "values" ->
           Response(200, "", langchain_to_chat_message(run.last))
      [] run.kind = "interrupt" /\ run.value = "str" ->
           Response(200, "", langchain_to_chat_message(AIMessage(StrContent(Hello), << >>)))
      [] OTHER -> Response(500, "Unexpected error", NoMsg)

\* chat.py lines 79-114. An exception raised before the try block is not
\* an HTTPException: the server answers it with its own 500.
invoke(agent_id, active, run) ==
    IF agent_id = "" THEN Response(400, "agent_id is not provided", NoMsg)
    ELSE IF get_agent(agent_id, active).raised # "none"
    THEN Response(500, "Internal Server Error", NoMsg)
    ELSE IF ~Binds(HandleInputParams, InvokeCallArgs)
    THEN Response(500, "Internal Server Error", NoMsg)
    ELSE InvokeTry(run)

\* inv: phase ("idle" | "done"), active (the active rows of the agents
\* table: all of them at first, fewer after deletions), and of a served
\* request: agent_id, run (what the agent's run
\* does), got (what get_agent returned) and response
InitInvoke ==
    /\ sse = << >>
    /\ stream = "idle"
    /\ nev = 0
    /\ produced = << >>
    /\ visit = [n |-> 0, node |-> "none"]
    /\ messages = << >>
    /\ rag = NoRag
    /\ hitl = NoHitl
    /\ srv = NoSrv
    /\ client = NoClient
    /\ inv = [phase |-> "idle", active |-> RowIds, agent_id |-> "", run |-> RunRaises,
              got |-> [raised |-> "none", graph |-> "none"],
              response |-> Response(0, "", NoMsg)]
    /\ sql = NoSql
    /\ coord = NoCoord
    /\ ui = NoUi
    /\ app = NoApp
    /\ reader = NoReader
    /\ sess = NoSess
    /\ csv = NoCsv

NotInv == <<sse, stream, nev, produced, visit, messages, rag, hitl, srv, client, sql, coord, ui, app, reader, sess, csv>>

\* api/v1/agent.py delete_agent: an active row is deactivated
DeleteAgent ==
    /\ inv.phase = "idle"
    /\ \E agent_id \in inv.active : inv' = [inv EXCEPT !.active = inv.active \ {agent_id}]
    /\ UNCHANGED NotInv

\* POST /chat/invoke is served
Invoke ==
    /\ inv.phase = "idle"
    /\ \E agent_id \in RequestedIds, run \in AgentRuns :
          inv' = [inv EXCEPT !.phase = "done", !.agent_id = agent_id, !.run = run,
                             !.got = get_agent(agent_id, inv.active),
                             !.response = invoke(agent_id, inv.active, run)]
    /\ UNCHANGED NotInv

NextInvoke ==
    \/ DeleteAgent
    \/ Invoke

SpecInvoke == InitInvoke /\ [][NextInvoke]_vars

-----------------------------------------------------------------------------
(* Properties of the invoke endpoint, under SpecInvoke *)

\* the request that was served names an agent that is available
NamesAvailable == inv.phase = "done" /\ inv.agent_id \in inv.active \cap AgentIds

\* C24 (as claimed): for every user input naming an available agent the
\* invoke endpoint returns the agent's final response: the last message of
\* the final state when the run completes, the first interrupt's value as
\* an AI message when the run's last event is an interrupt; it answers
\* HTTP 500 only when the agent run itself fails.
C24_InvokeReturnsFinalResponse ==
    NamesAvailable =>
       /\ inv.run.kind = "values" =>
             inv.response = Response(200, "", langchain_to_chat_message(inv.run.last))
       /\ inv.run.kind = "interrupt" =>
             (inv.response.status = 200 /\ inv.response.body.type = "ai")
       /\ inv.response.status = 500 => inv.run.kind = "raise"

\* C25 (as claimed): get_agent(agent_id) returns the graph registered under
\* exactly that id when the id is available, and raises when it is not; for
\* no content of the agents table does it return the graph of another agent
\* than the one requested.
C25_GetAgentExact ==
    (inv.phase = "done" /\ inv.agent_id # "") =>
       /\ inv.agent_id \in inv.active \cap AgentIds =>
             inv.got = [raised |-> "none", graph |-> inv.agent_id]
       /\ inv.agent_id \notin inv.active => inv.got.raised # "none"
       /\ inv.got.raised = "none" => inv.got.graph = inv.agent_id

-----------------------------------------------------------------------------
(* SpecSql: one call of the execute_sql_query tool                         *)
(* (app/tools/execute_sql_query.py) against a database that may fail.      *)

\* pieces a statement is put together from, as characters
SqlPieces ==
    {<<"s", "e", "l", "e", "c", "t">>, <<"S", "E", "L", "E", "C", "T">>, <<SPACE>>, <<"x">>,
     <<"d", "r", "o", "p">>, <<"D", "r", "o", "p">>, <<"-">>}

\* pieces one statement of the model is made of
MaxSqlPieces == 3

RECURSIVE Statements(_)
Statements(n) ==
    IF n = 0 THEN {<< >>}
    ELSE Statements(n - 1) \cup {s \o p : s \in Statements(n - 1), p \in SqlPieces}

\* str.lower on the characters of the model
LowerChar(c) ==
    CASE c = "S" -> "s" [] c = "E" -> "e" [] c = "L" -> "l" [] c = "C" -> "c"
      [] c = "T" -> "t" [] c = "D" -> "d" [] OTHER -> c
str_lower(str) == [i \in 1..Len(str) |-> LowerChar(str[i])]

\* str.startswith and the `in` of two strs
startswith(str, prefix) ==
    Len(str) >= Len(prefix) /\ SubSeq(str, 1, Len(prefix)) = prefix
contains(str, sub) ==
    \E i \in 1..(Len(str) - Len(sub) + 1) : SubSeq(str, i, i + Len(sub) - 1) = sub

\* execute_sql_query.py lines 50-66
dangerous_keywords ==
    {<<"d", "r", "o", "p">>,
     <<"d", "e", "l", "e", "t", "e">>,
     <<"u", "p", "d", "a", "t", "e">>,
     <<"i", "n", "s", "e", "r", "t">>,
     <<"a", "l", "t", "e", "r">>,
     <<"t", "r", "u", "n", "c", "a", "t", "e">>,
     <<"c", "r", "e", "a", "t", "e">>,
     <<"g", "r", "a", "n", "t">>,
     <<"r", "e", "v", "o", "k", "e">>,
     <<"c", "o", "m", "m", "e", "n", "t">>,
     <<"-", "-">>,
     <<"/", "*">>,
     <<"x", "p", "_">>,
     <<"e", "x", "e", "c">>,
     <<"s", "p", "_">>}

\* the statement is trimmed but compared as written
sql_lower_CaseSensitive(statement) == strip(statement)

\* line 44: sql.lower().strip()
sql_lower(statement) == strip(str_lower(statement))

\* what the tool returns
InvalidSqlError == "Error: Invalid or empty SQL query provided."
OnlySelectError == "Error: Only SELECT queries are allowed for security reasons."
HarmfulError == "Error: Query contains potentially harmful or disallowed operations."
DatabaseError == "Database error: ..."
UnexpectedErrorText == "Unexpected error: ..."
CsvResult == "csv"

\* the database when the statement is executed: "up"; "down" (no
\* connection: session.execute raises before anything is sent); "rejects"
\* (the statement is sent and the server answers with an error); "broken"
\* (the statement is sent and reading the result raises something that is
\* no SQLAlchemyError)
Databases == {"up", "down", "rejects", "broken"}

ToolReturn(out, sent) == [out |-> out, sent |-> sent, raised |-> FALSE]

\* execute_sql_query.py lines 41-131: the checks, then the statement as it
\* was given goes to session.execute; both except arms return a text
execute_sql_query(statement, db) ==
    IF statement = << >> THEN ToolReturn(InvalidSqlError, << >>)
    ELSE IF ~startswith(sql_lower(statement), <<"s", "e", "l", "e", "c", "t">>)
    THEN ToolReturn(OnlySelectError, << >>)
    ELSE IF \E keyword \in dangerous_keywords : contains(sql_lower(statement), keyword)
    THEN ToolReturn(HarmfulError, << >>)
    ELSE CASE db = "up" -> ToolReturn(CsvResult, <<statement>>)
           [] db = "down" -> ToolReturn(DatabaseError, << >>)
           [] db = "rejects" -> ToolReturn(DatabaseError, <<statement>>)
           [] db = "broken" -> ToolReturn(UnexpectedErrorText, <<statement>>)

\* sql: phase ("idle" | "done"), db, and of the call made: statement and
\* ret (what the tool returned and the statements the database was sent)
InitSql ==
    /\ sse = << >>
    /\ stream = "idle"
    /\ nev = 0
    /\ produced = << >>
    /\ visit = [n |-> 0, node |-> "none"]
    /\ messages = << >>
    /\ rag = NoRag
    /\ hitl = NoHitl
    /\ srv = NoSrv
    /\ client = NoClient
    /\ inv = NoInv
    /\ sql = [phase |-> "idle", db |-> "up", statement |-> << >>,
              ret |-> ToolReturn("none", << >>)]
    /\ coord = NoCoord
    /\ ui = NoUi
    /\ app = NoApp
    /\ reader = NoReader
    /\ sess = NoSess
    /\ csv = NoCsv

NotSql == <<sse, stream, nev, produced, visit, messages, rag, hitl, srv, client, inv, coord, ui, app, reader, sess, csv>>

\* the database fails, or recovers
DatabaseChanges ==
    /\ sql.phase = "idle"
    /\ \E db \in Databases \ {sql.db} : sql' = [sql EXCEPT !.db = db]
    /\ UNCHANGED NotSql

\* an agent calls the tool (app.tools exports it; the statement is the
\* model's to choose)
CallTool ==
    /\ sql.phase = "idle"
    /\ \E statement \in Statements(MaxSqlPieces) :
          sql' = [sql EXCEPT !.phase = "done", !.statement = statement,
                             !.ret = execute_sql_query(statement, sql.db)]
    /\ UNCHANGED NotSql

NextSql ==
    \/ DatabaseChanges
    \/ CallTool

SpecSql == InitSql /\ [][NextSql]_vars

-----------------------------------------------------------------------------
(* Properties of execute_sql_query, under SpecSql *)

\* the statement, lower-cased and trimmed
Normalised == strip(str_lower(sql.statement))

\* it starts with select and holds none of the disallowed keywords
Admissible ==
    /\ startswith(Normalised, <<"s", "e", "l", "e", "c", "t">>)
    /\ \A keyword \in dangerous_keywords : ~contains(Normalised, keyword)

ErrorTexts == {InvalidSqlError, OnlySelectError, HarmfulError, DatabaseError, UnexpectedErrorText}

\* C26: execute_sql_query sends a statement to the database only if, lower-
\* cased and trimmed, it starts with select and contains no disallowed
\* keyword, and then it sends that statement and nothing else; every other
\* input is answered with an error text and nothing is sent for it; every
\* database failure is answered with an error text; the tool never raises.
C26_OnlyAdmissibleSelectsAreSent ==
    sql.phase = "done" =>
       /\ ~sql.ret.raised
       /\ sql.ret.sent # << >> => (Admissible /\ sql.ret.sent = <<sql.statement>>)
       /\ ~Admissible => (sql.ret.sent = << >> /\ sql.ret.out \in ErrorTexts)
       /\ sql.db # "up" => sql.ret.out \in ErrorTexts
       /\ (Admissible /\ sql.db = "up") => sql.ret = ToolReturn(CsvResult, <<sql.statement>>)

\* a statement with an upper-case keyword behind an upper-case SELECT was
\* refused while the database was up
C26_Witness ==
    /\ sql.phase = "done"
    /\ sql.db = "up"
    /\ sql.statement = <<"S", "E", "L", "E", "C", "T">> \o <<SPACE>> \o <<"D", "r", "o", "p">>
    /\ sql.ret = ToolReturn(HarmfulError, << >>)

-----------------------------------------------------------------------------
(* SpecCoord: the coordinator node of the agentic-RAG graph                 *)
(* (app/agents/agentic_rag/nodes/coordinator.py) run on a GraphState whose  *)
(* message list is any list, the empty one included.                        *)

\* messages a state of SpecCoord may hold
MaxCoordMsgs == 2

CoordContents ==
    {StrContent(Hello), StrContent(Empty), ListContent(<<TextItem(Hello), ImageItem>>)}

CoordMessages ==
    {HumanMessage(c) : c \in CoordContents}
      \cup {AIMessage(StrContent(Hello), << >>), ToolMessage(StrContent(Hello), 1),
            SystemMessage(StrContent(Hello))}

\* state.py GraphState
GraphState(msgs, question, documents, gen, flag) ==
    [messages |-> msgs, question |-> question, documents |-> documents,
     generation |-> gen, web_search |-> flag]

CoordStates ==
    {GraphState(msgs, q, d, AIMessage(StrContent(Hello), << >>), w) :
        msgs \in SeqsUpTo(CoordMessages, MaxCoordMsgs),
        q \in {StrContent(Empty), StrContent(Hello)},
        d \in {<< >>, <<"d0">>},
        w \in BOOLEAN}

\* the channels of the state after a node's update: a key the update does
\* not hold keeps its value
ApplyUpdate(state, upd) ==
    [f \in DOMAIN state |-> IF f \in DOMAIN upd THEN upd[f] ELSE state[f]]

\* coord: phase ("idle" | "done" | "failed"), state (the GraphState the node
\* was given) and after (the state once its update was applied)
InitCoord ==
    /\ sse = << >>
    /\ stream = "idle"
    /\ nev = 0
    /\ produced = << >>
    /\ visit = [n |-> 0, node |-> "none"]
    /\ messages = << >>
    /\ rag = NoRag
    /\ hitl = NoHitl
    /\ srv = NoSrv
    /\ client = NoClient
    /\ inv = NoInv
    /\ sql = NoSql
    /\ \E state \in CoordStates : coord = [phase |-> "idle", state |-> state, after |-> state]
    /\ ui = NoUi
    /\ app = NoApp
    /\ reader = NoReader
    /\ sess = NoSess
    /\ csv = NoCsv

NotCoord ==
    <<sse, stream, nev, produced, visit, messages, rag, hitl, srv, client, inv, sql,
      ui, app, reader, sess, csv>>

\* the node returns {"question": question} and the update is applied
CoordinatorReturns ==
    /\ coord.phase = "idle"
    /\ ~coordinator(coord.state.messages).raised
    /\ coord' = [coord EXCEPT
                   !.phase = "done",
                   !.after = ApplyUpdate(coord.state,
                                         [question |-> coordinator(coord.state.messages).question])]
    /\ UNCHANGED NotCoord

\* the node raises: the step fails and nothing is written
CoordinatorRaises ==
    /\ coord.phase = "idle"
    /\ coordinator(coord.state.messages).raised
    /\ coord' = [coord EXCEPT !.phase = "failed"]
    /\ UNCHANGED NotCoord

NextCoord ==
    \/ CoordinatorReturns
    \/ CoordinatorRaises

SpecCoord == InitCoord /\ [][NextCoord]_vars

-----------------------------------------------------------------------------
(* Properties of the coordinator, under SpecCoord *)

LatestMessage == coord.state.messages[Len(coord.state.messages)]

\* the question the node is to set
ExpectedQuestion ==
    IF coord.state.messages # << >> /\ LatestMessage.kind = "human"
    THEN LatestMessage.content
    ELSE StrContent(Empty)

\* C31: when the state has a latest message, the coordinator does not raise;
\* it sets question to the content of that message when it is a Human
\* message and to the empty string when it is not, and every other field of
\* the state is what it was.
C31_QuestionFromLatestMessage ==
    (coord.phase # "idle" /\ coord.state.messages # << >>) =>
       /\ coord.phase = "done"
       /\ coord.after.question = ExpectedQuestion
       /\ \A f \in DOMAIN coord.state \ {"question"} : coord.after[f] = coord.state[f]

\* a state whose latest message is the model's, behind a Human message, and
\* whose question was set by an earlier turn: the question is now empty
C31_Witness ==
    /\ coord.phase = "done"
    /\ coord.state.messages =
          <<HumanMessage(StrContent(Hello)), AIMessage(StrContent(Hello), << >>)>>
    /\ coord.state.question = StrContent(Hello)
    /\ coord.after.question = StrContent(Empty)

\* C39 (as claimed): the coordinator never fails on its input: for every
\* message sequence, the empty one included, it returns a question, which is
\* the empty string when there is no latest Human message.
C39_CoordinatorNeverRaises ==
    coord.phase # "idle" =>
       /\ coord.phase = "done"
       /\ coord.after.question = ExpectedQuestion

-----------------------------------------------------------------------------
(* SpecReview: the review dialog of the Streamlit client (streamlit_app.py  *)
(* hitl_confirm_dialog) on a pending interrupt, and the block of main that  *)
(* resumes the agent with what the dialog stored.                           *)

\* action requests one interrupt may carry
MaxActions == 2

\* the tools whose calls are reviewed
ReviewedTools == {name \in {"write_file", "execute_sql", "read_data"} : InterruptOn(name) # {}}

OriginalArgs == "args0"
\* what the edit form may hand back
EditedArgs == {"args1", "args2"}

\* an interrupt message: action_requests, and one review config for each
RECURSIVE ReviewConfigs(_)
ReviewConfigs(names) ==
    IF names = << >> THEN << >>
    ELSE <<[action_name |-> Head(names), allowed_decisions |-> InterruptOn(Head(names))]>>
           \o ReviewConfigs(Tail(names))

InterruptMessage(names) ==
    [type |-> "interrupt",
     action_requests |-> [i \in 1..Len(names) |-> [name |-> names[i], args |-> OriginalArgs]],
     review_configs |-> ReviewConfigs(names)]

InterruptMessages ==
    {InterruptMessage(names) : names \in SeqsUpTo(ReviewedTools, MaxActions) \ {<< >>}}

\* streamlit_app.py lines 291-293 and 303: review_map.get(name, [...]); of
\* two configs of one name the dict keeps the later
review_map_get(review_configs, name) ==
    LET at == {i \in 1..Len(review_configs) : review_configs[i].action_name = name}
    IN IF at = {} THEN {"approve", "reject"}
       ELSE review_configs[CHOOSE i \in at : \A j \in at : j <= i].allowed_decisions

\* a dict in insertion order: a sequence of [key, value]
dict_get(d, k) ==
    LET at == {i \in 1..Len(d) : d[i].key = k}
    IN IF at = {} THEN [decision |-> "none", edited_args |-> "none"]
       ELSE d[CHOOSE i \in at : TRUE].value

dict_has(d, k) == \E i \in 1..Len(d) : d[i].key = k

\* d[k] = v: a key the dict holds keeps its place
dict_set(d, k, v) ==
    IF dict_has(d, k)
    THEN [i \in 1..Len(d) |-> IF d[i].key = k THEN [key |-> k, value |-> v] ELSE d[i]]
    ELSE Append(d, [key |-> k, value |-> v])

UserDecision(decision, edited_args) == [decision |-> decision, edited_args |-> edited_args]

\* the rows of the dialog whose buttons share their keys (app_{name},
\* rej_{name}, edit_{name}) with a row above: Streamlit raises on the first
\* widget of such a row, and nothing below it is drawn
DuplicateRows(action_requests) ==
    {j \in 1..Len(action_requests) :
        \E i \in 1..(j - 1) : action_requests[i].name = action_requests[j].name}

RowDrawn(action_requests, i) ==
    \A j \in DuplicateRows(action_requests) : i < j

\* the edit form, the progress list and the submit button are drawn
BelowRowsDrawn(action_requests) == DuplicateRows(action_requests) = {}

NoEditedAction == [name |-> "none", args |-> "none"]
PayloadDecision(type, edited_action) == [type |-> type, edited_action |-> edited_action]

\* one decision for each entry of hitl_decisions, in the order they were
\* made
RECURSIVE BuildDecisions_InDecisionOrder(_, _)
BuildDecisions_InDecisionOrder(action_requests, hitl_decisions) ==
    IF hitl_decisions = << >> THEN << >>
    ELSE LET e == Head(hitl_decisions)
         IN <<IF e.value.decision = "edit"
              THEN PayloadDecision("edit", [name |-> e.key, args |-> e.value.edited_args])
              ELSE PayloadDecision(e.value.decision, NoEditedAction)>>
              \o BuildDecisions_InDecisionOrder(action_requests, Tail(hitl_decisions))

\* streamlit_app.py lines 401-433: one decision for each action request, in
\* their order, looked up by tool name
RECURSIVE BuildDecisions(_, _)
BuildDecisions(action_requests, hitl_decisions) ==
    IF action_requests = << >> THEN << >>
    ELSE LET action_name == Head(action_requests).name
             user_decision == dict_get(hitl_decisions, action_name)
         IN <<IF user_decision.decision = "edit"
              THEN PayloadDecision("edit", [name |-> action_name,
                                            args |-> user_decision.edited_args])
              ELSE PayloadDecision(user_decision.decision, NoEditedAction)>>
              \o BuildDecisions(Tail(action_requests), hitl_decisions)

\* streamlit_app.py lines 383 and 394-397: the submit button is shown
SubmitShown(action_requests, hitl_decisions) ==
    /\ BelowRowsDrawn(action_requests)
    /\ hitl_decisions # << >>
    /\ Len(hitl_decisions) = Len(action_requests)
    /\ action_requests # << >>

\* agent_client.py line 169-173: the parameters of AgentClient.astream
AstreamParams == {"message", "thread_id"}
\* streamlit_app.py lines 143-147: the keywords main calls it with
ResumeKeywords == {"message", "resume", "thread_id"}

\* a Python call with keyword arguments binds, or raises TypeError
AcceptsKeywords(params, keywords) == keywords \subseteq params

\* app/schemas/chat.py UserInput has content, agent_id and thread_id: what
\* the request of astream carries to POST /chat/stream
TurnSubmission(content, thread_id) ==
    [content |-> content, thread_id |-> thread_id, resume |-> NoResume]

NoFeedback == [stored |-> FALSE, decisions |-> << >>]
NoInterrupt == [type |-> "none", action_requests |-> << >>, review_configs |-> << >>]
ThreadId == "t1"

\* ui: phase ("review" | "submitted" | "resumed"), the keys of
\* st.session_state (pending_interrupt, hitl_decisions, editing_action,
\* final_hitl_feedback), backend (the turn submissions the server has been
\* sent); and, as history, interrupt (the interrupt under review), chosen
\* (the user's latest decision on each row), row (the row whose edit
\* button was clicked), payload (what the dialog stored), failed (the
\* resume block caught an exception)
InitReview ==
    /\ sse = << >>
    /\ stream = "idle"
    /\ nev = 0
    /\ produced = << >>
    /\ visit = [n |-> 0, node |-> "none"]
    /\ messages = << >>
    /\ rag = NoRag
    /\ hitl = NoHitl
    /\ srv = NoSrv
    /\ client = NoClient
    /\ inv = NoInv
    /\ sql = NoSql
    /\ coord = NoCoord
    /\ \E m \in InterruptMessages :
          ui = [phase |-> "review", pending_interrupt |-> m, hitl_decisions |-> << >>,
                editing_action |-> "none", final_hitl_feedback |-> NoFeedback,
                backend |-> << >>, interrupt |-> m,
                chosen |-> [i \in 1..Len(m.action_requests) |-> UserDecision("none", "none")],
                row |-> 0, payload |-> << >>, failed |-> FALSE]
    /\ app = NoApp
    /\ reader = NoReader
    /\ sess = NoSess
    /\ csv = NoCsv

NotUi ==
    <<sse, stream, nev, produced, visit, messages, rag, hitl, srv, client, inv, sql,
      coord, app, reader, sess, csv>>

PendingRequests == ui.pending_interrupt.action_requests
Rows == 1..Len(PendingRequests)
AllowedAt(i) == review_map_get(ui.pending_interrupt.review_configs, PendingRequests[i].name)

\* the decision of a button is stored under the tool's name
Decided(i, type) ==
    [ui EXCEPT !.hitl_decisions = dict_set(ui.hitl_decisions, PendingRequests[i].name,
                                           UserDecision(type, "none")),
               !.chosen[i] = UserDecision(type, "none")]

\* lines 311-324: the approve button of a row is clicked
ClickApprove ==
    /\ ui.phase = "review"
    /\ \E i \in Rows :
          /\ RowDrawn(PendingRequests, i)
          /\ "approve" \in AllowedAt(i)
          /\ ui' = Decided(i, "approve")
    /\ UNCHANGED NotUi

\* lines 325-333: the reject button of a row is clicked
ClickReject ==
    /\ ui.phase = "review"
    /\ \E i \in Rows :
          /\ RowDrawn(PendingRequests, i)
          /\ "reject" \in AllowedAt(i)
          /\ ui' = Decided(i, "reject")
    /\ UNCHANGED NotUi

\* lines 334-340: the edit button of a row is clicked
ClickEdit ==
    /\ ui.phase = "review"
    /\ \E i \in Rows :
          /\ RowDrawn(PendingRequests, i)
          /\ "edit" \in AllowedAt(i)
          /\ ui' = [ui EXCEPT !.editing_action = PendingRequests[i].name, !.row = i]
    /\ UNCHANGED NotUi

\* lines 345-377: the edit form is confirmed
ConfirmEdit ==
    /\ ui.phase = "review"
    /\ BelowRowsDrawn(PendingRequests)
    /\ ui.editing_action # "none"
    /\ \E edited \in EditedArgs :
          ui' = [ui EXCEPT
                   !.hitl_decisions = dict_set(ui.hitl_decisions, ui.editing_action,
                                               UserDecision("edit", edited)),
                   !.editing_action = "none",
                   !.chosen[ui.row] = UserDecision("edit", edited)]
    /\ UNCHANGED NotUi

\* lines 378-380: the edit form is cancelled
CancelEdit ==
    /\ ui.phase = "review"
    /\ BelowRowsDrawn(PendingRequests)
    /\ ui.editing_action # "none"
    /\ ui' = [ui EXCEPT !.editing_action = "none"]
    /\ UNCHANGED NotUi

\* lines 394-449: the submit button is clicked
SubmitReview ==
    /\ ui.phase = "review"
    /\ SubmitShown(PendingRequests, ui.hitl_decisions)
    /\ LET decisions == BuildDecisions(PendingRequests, ui.hitl_decisions)
       IN ui' = [ui EXCEPT
                   !.phase = "submitted",
                   !.final_hitl_feedback = [stored |-> TRUE, decisions |-> decisions],
                   !.pending_interrupt = NoInterrupt,
                   !.hitl_decisions = << >>,
                   !.editing_action = "none",
                   !.payload = decisions]
    /\ UNCHANGED NotUi

\* main, lines 137-162: the agent is resumed with the stored feedback, and
\* the four keys are popped whatever happened
ResumeAgent ==
    /\ ui.phase = "submitted"
    /\ ui.final_hitl_feedback.stored
    /\ LET raises == ~AcceptsKeywords(AstreamParams, ResumeKeywords)
       IN ui' = [ui EXCEPT
                   !.phase = "resumed",
                   !.backend = IF raises THEN ui.backend
                               ELSE Append(ui.backend, TurnSubmission(Empty, ThreadId)),
                   !.failed = raises,
                   !.pending_interrupt = NoInterrupt,
                   !.final_hitl_feedback = NoFeedback,
                   !.hitl_decisions = << >>,
                   !.editing_action = "none"]
    /\ UNCHANGED NotUi

NextReview ==
    \/ ClickApprove
    \/ ClickReject
    \/ ClickEdit
    \/ ConfirmEdit
    \/ CancelEdit
    \/ SubmitReview
    \/ ResumeAgent

SpecReview == InitReview /\ [][NextReview]_vars

-----------------------------------------------------------------------------
(* Properties of the review dialog, under SpecReview *)

ReviewedRequests == ui.interrupt.action_requests

\* the payload's decision for what the user chose on a row
DecisionFor(i) ==
    IF ui.chosen[i].decision = "edit"
    THEN PayloadDecision("edit", [name |-> ReviewedRequests[i].name,
                                  args |-> ui.chosen[i].edited_args])
    ELSE PayloadDecision(ui.chosen[i].decision, NoEditedAction)

\* C32: the resume payload the dialog stores holds one decision for each
\* action request of the interrupt, in the order of the requests: the i-th
\* is the decision the user took on the i-th request, its type is one
\* the review config of that request's tool allows, and an edit carries the
\* request's tool name with the arguments the user entered.
C32_OneDecisionPerRequest ==
    ui.phase \in {"submitted", "resumed"} =>
       /\ Len(ui.payload) = Len(ReviewedRequests)
       /\ \A i \in 1..Len(ReviewedRequests) :
             /\ ui.payload[i] = DecisionFor(i)
             /\ \E j \in 1..Len(ui.interrupt.review_configs) :
                   /\ ui.interrupt.review_configs[j].action_name = ReviewedRequests[i].name
                   /\ ui.payload[i].type \in ui.interrupt.review_configs[j].allowed_decisions
             /\ ui.payload[i].type = "edit" =>
                   /\ ui.payload[i].edited_action.name = ReviewedRequests[i].name
                   /\ ui.payload[i].edited_action.args \in EditedArgs

\* the second request was rejected first, the first was edited after it,
\* and the payload has the edit before the reject
C32_Witness ==
    /\ ui.phase = "submitted"
    /\ ui.interrupt = InterruptMessage(<<"write_file", "execute_sql">>)
    /\ ui.payload = <<PayloadDecision("edit", [name |-> "write_file", args |-> "args1"]),
                      PayloadDecision("reject", NoEditedAction)>>

\* C33 (as claimed): while an interrupt is under review every one of its
\* requests can be decided, and once the user has decided each the
\* submit button is shown: the review can always be completed, also when
\* two requests name the same tool.
C33_ReviewCanBeCompleted ==
    ui.phase = "review" =>
       /\ \A i \in Rows : RowDrawn(PendingRequests, i)
       /\ (\A i \in Rows : ui.chosen[i].decision # "none") =>
             SubmitShown(PendingRequests, ui.hitl_decisions)

\* C34 (as claimed): after the dialog was submitted and main has cleared
\* pending_interrupt, final_hitl_feedback, hitl_decisions and
\* editing_action, the backend has received exactly one turn submission, on
\* the session's thread, whose resume field is the submitted payload.
C34_ResumeReachesBackend ==
    ui.phase = "resumed" =>
       /\ Len(ui.backend) = 1
       /\ ui.backend[1].thread_id = ThreadId
       /\ ui.backend[1].resume = ui.payload

-----------------------------------------------------------------------------
(* SpecBoot: the startup lifespan (app/main.py), which attaches the shared  *)
(* checkpointer to the graphs of the agents available at that time, the     *)
(* agents table as PATCH /agents/{agent_id} changes it afterwards, and the  *)
(* turns get_agent serves.                                                  *)

\* agent_id values of the rows of the agents table: every registered agent
\* and one the process has no graph for
TableIds == AgentIds \cup {"custom"}

\* agent_utils.py get_available_agents: the graphs of the active rows, the
\* default graph when no row is active, and the KeyError of
\* _AGENTS[agent_id] for an active id the registry does not hold
get_available_agents(active) ==
    LET available_agent_ids == get_available_agent_ids(active)
    IN IF available_agent_ids = {}
       THEN [raised |-> "none", graphs |-> {DEFAULT_AGENT_ID}]
       ELSE IF ~(available_agent_ids \subseteq AgentIds)
       THEN [raised |-> "KeyError", graphs |-> {}]
       ELSE [raised |-> "none", graphs |-> available_agent_ids]

NoTurnServed == [agent_id |-> "none", graph |-> "none", checkpointed |-> FALSE]

\* app: phase ("down" | "up" | "failed"), active (the ids of the rows with
\* is_active true), attached (the graphs whose checkpointer attribute is the
\* shared checkpointer), served (the latest turn get_agent returned a graph
\* for); and, as history, boot (the active rows at startup)
InitBoot ==
    /\ sse = << >>
    /\ stream = "idle"
    /\ nev = 0
    /\ produced = << >>
    /\ visit = [n |-> 0, node |-> "none"]
    /\ messages = << >>
    /\ rag = NoRag
    /\ hitl = NoHitl
    /\ srv = NoSrv
    /\ client = NoClient
    /\ inv = NoInv
    /\ sql = NoSql
    /\ coord = NoCoord
    /\ ui = NoUi
    /\ \E active \in SUBSET TableIds :
          app = [phase |-> "down", active |-> active, attached |-> {},
                 served |-> NoTurnServed, boot |-> active]
    /\ reader = NoReader
    /\ sess = NoSess
    /\ csv = NoCsv

NotApp ==
    <<sse, stream, nev, produced, visit, messages, rag, hitl, srv, client, inv, sql,
      coord, ui, reader, sess, csv>>

\* main.py lines 31-44: the process starts, or fails to
Lifespan ==
    /\ app.phase = "down"
    /\ LET available_agents == get_available_agents(app.active)
       IN app' = IF available_agents.raised # "none"
                 THEN [app EXCEPT !.phase = "failed"]
                 ELSE [app EXCEPT !.phase = "up", !.attached = available_agents.graphs]
    /\ UNCHANGED NotApp

\* api/v1/agent.py update_agent: is_active of a row is set
UpdateAgent ==
    /\ app.phase = "up"
    /\ \E agent_id \in TableIds, is_active \in BOOLEAN :
          app' = [app EXCEPT !.active = IF is_active THEN app.active \cup {agent_id}
                                         ELSE app.active \ {agent_id}]
    /\ UNCHANGED NotApp

\* api/v1/chat.py: a turn is served by the graph get_agent returns
ServeTurn ==
    /\ app.phase = "up"
    /\ \E agent_id \in TableIds :
          LET got == get_agent(agent_id, app.active)
          IN /\ got.raised = "none"
             /\ app' = [app EXCEPT !.served = [agent_id |-> agent_id, graph |-> got.graph,
                                               checkpointed |-> got.graph \in app.attached]]
    /\ UNCHANGED NotApp

NextBoot ==
    \/ Lifespan
    \/ UpdateAgent
    \/ ServeTurn

SpecBoot == InitBoot /\ [][NextBoot]_vars

-----------------------------------------------------------------------------
(* Properties of the startup lifespan, under SpecBoot *)

\* C35 (as claimed): every graph get_agent returns for a request has had the
\* shared checkpointer attached by the lifespan, so every served turn is
\* checkpointed; also the turns of an agent that was not active at startup
\* and was activated later.
C35_ServedGraphsAreCheckpointed ==
    app.served # NoTurnServed => app.served.checkpointed

-----------------------------------------------------------------------------
(* SpecSession: uses of session(), the context manager of the database      *)
(* managers (app/database/db_manager.py), one after the other: the body     *)
(* writes through the session and returns or raises.                        *)

\* uses of session() in one behaviour, and writes of one body
MaxSessions == 2
MaxWrites == 2

\* how a body may end: it returns, it raises an Exception, or the coroutine is
\* cancelled in it (CancelledError is a BaseException and no Exception)
BodyEnds == {"returns", "Exception", "CancelledError"}
\* what session.commit() may do
CommitOutcomes == {"ok", "raises"}

Exited(calls, raised) == [calls |-> calls, raised |-> raised]

\* the session is committed however the body ended
session_CommitInFinally(body, commit) ==
    IF commit = "ok" THEN Exited(<<"commit", "close">>, IF body = "returns" THEN "none" ELSE body)
    ELSE Exited(<<"commit", "rollback", "close">>, "CommitError")

\* db_manager.py lines 73-80 and 153-160: what the manager calls on the
\* session once the body has ended, and what leaves the with statement
session(body, commit) ==
    CASE body = "returns" /\ commit = "ok" -> Exited(<<"commit", "close">>, "none")
      [] body = "returns" /\ commit = "raises" ->
            Exited(<<"commit", "rollback", "close">>, "CommitError")
      [] body = "Exception" -> Exited(<<"rollback", "close">>, "Exception")
      [] body = "CancelledError" -> Exited(<<"close">>, "CancelledError")

\* the session's transaction after a call: a commit that raises leaves it
\* open, and close rolls back what is still open
TxAfter(tx, call, commit) ==
    CASE call = "commit" -> IF tx = "open" /\ commit = "ok" THEN "committed" ELSE tx
      [] call = "rollback" -> IF tx = "open" THEN "rolled_back" ELSE tx
      [] call = "close" -> IF tx = "open" THEN "rolled_back" ELSE tx

RECURSIVE TxAfterAll(_, _, _)
TxAfterAll(tx, calls, commit) ==
    IF calls = << >> THEN tx
    ELSE TxAfterAll(TxAfter(tx, Head(calls), commit), Tail(calls), commit)

Count(calls, call) == Cardinality({i \in 1..Len(calls) : calls[i] = call})

\* sess: phase ("idle" | "body" | "exited"), manager ("async" | "sync"), n
\* (uses so far), pending (rows the body has written), stored (rows the
\* database holds), and of the latest use: tx (its transaction), calls,
\* raised, body, commit (how the body and the commit ended), before (stored
\* when it was entered)
InitSession ==
    /\ sse = << >>
    /\ stream = "idle"
    /\ nev = 0
    /\ produced = << >>
    /\ visit = [n |-> 0, node |-> "none"]
    /\ messages = << >>
    /\ rag = NoRag
    /\ hitl = NoHitl
    /\ srv = NoSrv
    /\ client = NoClient
    /\ inv = NoInv
    /\ sql = NoSql
    /\ coord = NoCoord
    /\ ui = NoUi
    /\ app = NoApp
    /\ reader = NoReader
    /\ \E manager \in {"async", "sync"} :
          sess = [phase |-> "idle", manager |-> manager, n |-> 0, pending |-> 0,
                  stored |-> 0, tx |-> "none", calls |-> << >>, raised |-> "none",
                  body |-> "none", commit |-> "none", before |-> 0]
    /\ csv = NoCsv

NotSess ==
    <<sse, stream, nev, produced, visit, messages, rag, hitl, srv, client, inv, sql,
      coord, ui, app, reader, csv>>

\* `with manager.session() as session:` a session is made and handed over
Enter ==
    /\ sess.phase \in {"idle", "exited"}
    /\ sess.n < MaxSessions
    /\ sess' = [sess EXCEPT !.phase = "body", !.n = sess.n + 1, !.pending = 0,
                            !.tx = "open", !.calls = << >>, !.raised = "none",
                            !.body = "none", !.commit = "none", !.before = sess.stored]
    /\ UNCHANGED NotSess

\* the body adds a row through the session
Write ==
    /\ sess.phase = "body"
    /\ sess.pending < MaxWrites
    /\ sess' = [sess EXCEPT !.pending = sess.pending + 1]
    /\ UNCHANGED NotSess

\* the session after the manager's calls
ExitedWith(body, commit) ==
    LET out == session(body, commit)
        tx == TxAfterAll(sess.tx, out.calls, commit)
    IN [sess EXCEPT !.phase = "exited", !.tx = tx, !.calls = out.calls,
                    !.raised = out.raised, !.body = body, !.commit = commit,
                    !.stored = IF tx = "committed" THEN sess.stored + sess.pending
                               ELSE sess.stored]

\* the body returns and the manager commits, which may fail
BodyReturns ==
    /\ sess.phase = "body"
    /\ \E commit \in CommitOutcomes : sess' = ExitedWith("returns", commit)
    /\ UNCHANGED NotSess

\* the body raises, or is cancelled
BodyRaises ==
    /\ sess.phase = "body"
    /\ \E body \in BodyEnds \ {"returns"} : sess' = ExitedWith(body, "none")
    /\ UNCHANGED NotSess

NextSession ==
    \/ Enter
    \/ Write
    \/ BodyReturns
    \/ BodyRaises

SpecSession == InitSession /\ [][NextSession]_vars

-----------------------------------------------------------------------------
(* Properties of session(), under SpecSession *)

Succeeded == sess.body = "returns" /\ sess.commit = "ok"

\* no commit is called after a call of the manager, or the body, has failed
NoCommitAfterFailure ==
    /\ sess.body # "returns" => Count(sess.calls, "commit") = 0
    /\ Count(sess.calls, "commit") <= 1
    /\ Count(sess.calls, "commit") = 1 => sess.calls[1] = "commit"

\* C37: a use of session() ends in one of two ways. Either the body returned
\* and the commit succeeded: the rows it wrote are stored and nothing is
\* raised. Or the body or the commit raised: the transaction is rolled back
\* (by rollback() for an Exception, by close() for a cancellation), nothing
\* of it is stored and the exception leaves the with statement. In both the
\* session is closed exactly once, as the last call, and it is never
\* committed after a failure.
C37_CommitOrRollback ==
    sess.phase = "exited" =>
       /\ Count(sess.calls, "close") = 1
       /\ sess.calls[Len(sess.calls)] = "close"
       /\ NoCommitAfterFailure
       /\ IF Succeeded
          THEN /\ sess.tx = "committed"
               /\ sess.raised = "none"
               /\ Count(sess.calls, "rollback") = 0
               /\ sess.stored = sess.before + sess.pending
          ELSE /\ sess.tx = "rolled_back"
               /\ sess.raised = (IF sess.body = "returns" THEN "CommitError" ELSE sess.body)
               /\ sess.raised # "CancelledError" => Count(sess.calls, "rollback") = 1
               /\ sess.stored = sess.before

\* a second use whose body wrote two rows and raised, after a first use that
\* stored one: the database still holds the one row
C37_Witness ==
    /\ sess.phase = "exited"
    /\ sess.n = 2
    /\ sess.body = "Exception"
    /\ sess.pending = 2
    /\ sess.stored = 1
    /\ sess.calls = <<"rollback", "close">>

-----------------------------------------------------------------------------
(* SpecCsv: the text execute_sql_query builds from the rows of a query      *)
(* (app/tools/execute_sql_query.py lines 88-121), character by character.   *)

\* rows a query may return
MaxRows == 3
\* characters of the one value of a row
RowWidths == {1, 40}
\* values of max_rows and max_chars a caller may pass
RowLimits == 0..MaxRows
CharLimits == {0, 50, 100, 120, 1000}

\* execute_sql_query.py line 112: csv_str[: max_chars - 100]
TruncationMargin == 100

CR == "\r"

DigitChars == <<"0", "1", "2", "3", "4", "5", "6", "7", "8", "9">>

\* str(n) of a natural number
RECURSIVE str_of_int(_)
str_of_int(n) ==
    IF n < 10 THEN <<DigitChars[n + 1]>>
    ELSE str_of_int(n \div 10) \o <<DigitChars[(n % 10) + 1]>>

Chars_Warning1 ==
    <<"#", " ", "W", "a", "r", "n", "i", "n", "g", ":", " ", "Q", "u", "e",
      "r", "y", " ", "r", "e", "t", "u", "r", "n", "e", "d", " ">>
Chars_Warning2 ==
    <<" ", "r", "o", "w", "s", ",", " ", "t", "r", "u", "n", "c", "a", "t",
      "e", "d", " ", "t", "o", " ">>
Chars_Rows ==
    <<" ", "r", "o", "w", "s", ".">>
Chars_Error1 ==
    <<"#", " ", "E", "r", "r", "o", "r", ":", " ", "R", "e", "s", "u", "l",
      "t", " ", "t", "o", "o", " ", "l", "a", "r", "g", "e", ".", " ", "T",
      "r", "u", "n", "c", "a", "t", "e", "d", " ", "t", "o", " ", "~">>
Chars_Error2 ==
    <<" ", "c", "h", "a", "r", "s", ".">>

\* lines 98-101
WarningLine(row_count, max_rows) ==
    Chars_Warning1 \o str_of_int(row_count) \o Chars_Warning2 \o str_of_int(max_rows)
      \o Chars_Rows

\* line 118
ErrorLine(max_chars) == <<NEWLINE>> \o Chars_Error1 \o str_of_int(max_chars) \o Chars_Error2

\* csv.writer ends every row it writes with "\r\n"
writerow(value) == value \o <<CR, NEWLINE>>

\* the one value of a row, "x" width times, and the one column name
RowValue(width) == [i \in 1..width |-> "x"]
ColumnName == <<"c">>

\* lines 92-103: the header and the rows written before the break
RECURSIVE WriteRows(_, _)
WriteRows(n, width) ==
    IF n = 0 THEN << >> ELSE writerow(RowValue(width)) \o WriteRows(n - 1, width)

\* s[:k] of Python: a negative k counts from the end
SliceTo(str, k) ==
    LET stop == IF k < 0 THEN (IF Len(str) + k < 0 THEN 0 ELSE Len(str) + k)
                ELSE (IF k > Len(str) THEN Len(str) ELSE k)
    IN SubSeq(str, 1, stop)

\* s.rfind("\n") + 1: the position of the last line end, 0 when none
rfind_newline(str) ==
    LET at == {i \in 1..Len(str) : str[i] = NEWLINE}
    IN IF at = {} THEN 0 ELSE CHOOSE i \in at : \A j \in at : j <= i

\* s.rstrip("\n")
RECURSIVE rstrip_newline(_)
rstrip_newline(str) ==
    IF str # << >> /\ str[Len(str)] = NEWLINE
    THEN rstrip_newline(SubSeq(str, 1, Len(str) - 1))
    ELSE str

Min(a, b) == IF a < b THEN a ELSE b

\* lines 88-121: the text returned for row_count rows of the given width
build_csv(row_count, width, max_rows, max_chars) ==
    LET written == Min(row_count, max_rows)
        warned == row_count > max_rows
        output == writerow(ColumnName) \o WriteRows(written, width)
        stripped == rstrip_newline(output)
        csv_str == IF warned
                   THEN stripped \o <<NEWLINE>> \o WarningLine(row_count, max_rows)
                   ELSE stripped
        truncated == SliceTo(csv_str, max_chars - TruncationMargin)
        last_nl == rfind_newline(truncated)
    IN IF Len(csv_str) > max_chars
       THEN (IF last_nl # 0 THEN SubSeq(truncated, 1, last_nl) ELSE truncated)
              \o ErrorLine(max_chars)
       ELSE csv_str

\* csv: phase ("idle" | "done"), the rows of the query (row_count, width),
\* max_rows, max_chars and out (the text returned)
InitCsv ==
    /\ sse = << >>
    /\ stream = "idle"
    /\ nev = 0
    /\ produced = << >>
    /\ visit = [n |-> 0, node |-> "none"]
    /\ messages = << >>
    /\ rag = NoRag
    /\ hitl = NoHitl
    /\ srv = NoSrv
    /\ client = NoClient
    /\ inv = NoInv
    /\ sql = NoSql
    /\ coord = NoCoord
    /\ ui = NoUi
    /\ app = NoApp
    /\ reader = NoReader
    /\ sess = NoSess
    /\ \E row_count \in 0..MaxRows, width \in RowWidths,
          max_rows \in RowLimits, max_chars \in CharLimits :
          csv = [phase |-> "idle", row_count |-> row_count, width |-> width,
                 max_rows |-> max_rows, max_chars |-> max_chars, out |-> << >>]

NotCsv ==
    <<sse, stream, nev, produced, visit, messages, rag, hitl, srv, client, inv, sql,
      coord, ui, app, reader, sess>>

\* the rows are fetched and the text is built
BuildCsv ==
    /\ csv.phase = "idle"
    /\ csv' = [csv EXCEPT !.phase = "done",
                          !.out = build_csv(csv.row_count, csv.width, csv.max_rows,
                                            csv.max_chars)]
    /\ UNCHANGED NotCsv

NextCsv == BuildCsv

SpecCsv == InitCsv /\ [][NextCsv]_vars

-----------------------------------------------------------------------------
(* Properties of the CSV result, under SpecCsv *)

\* a line of the text starts at position i
LineStart(i) == i = 1 \/ csv.out[i - 1] = NEWLINE

\* the lines of the text that are rows of the query, by where they start
DataRows == {i \in 1..Len(csv.out) : LineStart(i) /\ csv.out[i] = "x"}

\* a line of the text is the warning
HasWarning ==
    LET warning == WarningLine(csv.row_count, csv.max_rows)
    IN \E i \in 1..Len(csv.out) :
          /\ LineStart(i)
          /\ i + Len(warning) - 1 <= Len(csv.out)
          /\ SubSeq(csv.out, i, i + Len(warning) - 1) = warning
          /\ (i + Len(warning) - 1 = Len(csv.out) \/ csv.out[i + Len(warning)] = NEWLINE)

\* at most max_rows rows of the query are in the text
RowLimitHolds == Cardinality(DataRows) <= csv.max_rows

\* the warning is in the text exactly when rows were left out
WarningIffRowsLeftOut == HasWarning <=> csv.row_count > csv.max_rows

\* the text is not longer than max_chars
CharLimitHolds == Len(csv.out) <= csv.max_chars

\* C38 (as claimed): for every max_rows >= 0 and max_chars >= 0 the text
\* returned holds at most max_rows data rows, carries the row-truncation
\* warning exactly when the query returned more than max_rows rows, and is
\* not longer than max_chars.
C38_TruncatedToLimits ==
    csv.phase = "done" => (RowLimitHolds /\ WarningIffRowsLeftOut /\ CharLimitHolds)

-----------------------------------------------------------------------------
(* SpecClient: AgentClient.stream and AgentClient.astream (agent_client.py) *)
(* reading, line by line, the event stream streaming_message_generator      *)
(* writes for one request.                                                  *)

\* stream events agent.astream may produce for the request
MaxAgentEvents == 2

\* what agent.astream may produce: an update with a message the encoder
\* supports or does not, the interrupt update, and chunks whose content is a
\* str, a str with a quote and a line end, a list with a text block, or a
\* list without text
AgentEvents ==
    {UpdatesEvent("model", DictUpdate(<<m>>), 1) :
        m \in {AIMessage(StrContent(Hello), <<ToolCall(1, "execute_sql")>>),
               ToolMessage(StrContent(<<QUOTE, NEWLINE>>), 1),
               SystemMessage(StrContent(Hello))}}
      \cup {UpdatesEvent("model", InterruptUpdate(<<"request">>), 1)}
      \cup {MessagesEvent(AIMessageChunk(c), "model", "answer", 1) :
               c \in {StrContent(Hello), StrContent(<<QUOTE, NEWLINE>>),
                      ListContent(<<TextItem(Hello), ImageItem>>),
                      ListContent(<<ImageItem>>)}}

\* message_utils.py lines 96, 98, 110, 113 and 115: the line of an event
WireOf(ev) ==
    CASE ev.type = "token" -> SseLine(DumpEvent("token", json_dumps_str(ev.text)))
      [] ev.type = "message" -> SseLine(DumpEvent("message", DumpChatMessage(ev.msg)))
      [] ev.type = "error" -> SseLine(DumpEvent("error", json_dumps_str(ev.text)))
      [] ev.type = "done" -> <<"data: ", "[DONE]", NEWLINE, NEWLINE>>

RECURSIVE WireOfAll(_)
WireOfAll(evs) == IF evs = << >> THEN << >> ELSE WireOf(Head(evs)) \o WireOfAll(Tail(evs))

\* what the generator yields for the stream events es, to its end
ServerEvents(es) ==
    LET g == PushAll([NoGenerator EXCEPT !.stream = "open"], es)
    IN IF g.stream = "open" THEN OnEnd(g.sse) ELSE g.sse

\* every item is yielded
astream_yields_Everything(parsed) == TRUE

\* agent_client.py line 206: `if parsed != "": yield parsed`
astream_yields(parsed) == parsed # Parsed("token", NoMsg, << >>)

\* reader: phase ("reading" | "stopped" | "failed"), method ("stream" |
\* "astream"), lines (what iter_lines gives), pos (lines read), yielded (the
\* items handed to the caller); and, as history, events (what the server
\* wrote)
InitClient ==
    /\ sse = << >>
    /\ stream = "idle"
    /\ nev = 0
    /\ produced = << >>
    /\ visit = [n |-> 0, node |-> "none"]
    /\ messages = << >>
    /\ rag = NoRag
    /\ hitl = NoHitl
    /\ srv = NoSrv
    /\ client = NoClient
    /\ inv = NoInv
    /\ sql = NoSql
    /\ coord = NoCoord
    /\ ui = NoUi
    /\ app = NoApp
    /\ \E es \in SeqsUpTo(AgentEvents, MaxAgentEvents), method \in {"stream", "astream"} :
          reader = [phase |-> "reading", method |-> method,
                    events |-> ServerEvents(es),
                    lines |-> SplitLines(WireOfAll(ServerEvents(es)), << >>),
                    pos |-> 0, yielded |-> << >>]
    /\ sess = NoSess
    /\ csv = NoCsv

NotReader ==
    <<sse, stream, nev, produced, visit, messages, rag, hitl, srv, client, inv, sql,
      coord, ui, app, sess, csv>>

\* agent_client.py lines 160-165 and 200-207: one turn of the loop over the
\* lines of the response
ReadLine ==
    /\ reader.phase = "reading"
    /\ reader.pos < Len(reader.lines)
    /\ LET line == reader.lines[reader.pos + 1]
           parsed == parse_stream_line(line)
           read == [reader EXCEPT !.pos = reader.pos + 1]
       IN reader' =
             IF strip(line) = << >> THEN read
             ELSE IF parsed.kind = "raise" THEN [read EXCEPT !.phase = "failed"]
             ELSE IF parsed.kind = "none" THEN [read EXCEPT !.phase = "stopped"]
             ELSE IF reader.method = "astream" /\ ~astream_yields(parsed) THEN read
             ELSE [read EXCEPT !.yielded = Append(reader.yielded, parsed)]
    /\ UNCHANGED NotReader

NextClient == ReadLine

SpecClient == InitClient /\ [][NextClient]_vars

-----------------------------------------------------------------------------
(* Properties of the client's reading, under SpecClient *)

\* the item the client is to yield for an event of the server
ItemOf(ev) ==
    CASE ev.type = "token" -> Parsed("token", NoMsg, ev.text)
      [] ev.type = "message" -> Parsed("message", ev.msg, << >>)
      [] ev.type = "error" ->
            Parsed("message", ChatMessage("ai", <<"Error: ">> \o ev.text, << >>, NoId), << >>)

\* the items of the events before the sentinel; with skip, without those of
\* the token events whose text is empty
RECURSIVE ItemsOf(_, _)
ItemsOf(evs, skip) ==
    IF evs = << >> \/ Head(evs).type = "done" THEN << >>
    ELSE (IF skip /\ Head(evs).type = "token" /\ Head(evs).text = << >>
          THEN << >> ELSE <<ItemOf(Head(evs))>>)
           \o ItemsOf(Tail(evs), skip)

IsPrefix(a, b) == Len(a) <= Len(b) /\ SubSeq(b, 1, Len(a)) = a

\* the client has read the sentinel, and no line behind it
AtSentinel ==
    /\ reader.pos >= 1
    /\ reader.lines[reader.pos] = <<"data: ", "[DONE]">>
    /\ \A i \in 1..(reader.pos - 1) : reader.lines[i] # <<"data: ", "[DONE]">>

\* the client has yielded, in order, the items of the events, all of them
\* once it has stopped, and it stops at the sentinel and nowhere else
ReadsAll(skip) ==
    /\ reader.phase # "failed"
    /\ IsPrefix(reader.yielded, ItemsOf(reader.events, skip))
    /\ reader.phase = "stopped" =>
          (reader.yielded = ItemsOf(reader.events, skip) /\ AtSentinel)
    /\ (reader.phase = "reading" /\ reader.pos >= 1) =>
          reader.lines[reader.pos] # <<"data: ", "[DONE]">>

====
